---- MODULE Spec2Model ----
(***************************************************************************)
(* Safety-gated deletion core of light-c (src-tauri/src): the delete gate  *)
(* of DeleteEngine, the tiered EnhancedDeleteEngine, the leftover gate and *)
(* parallel PermanentDeleteEngine, cluster-aligned physical sizes and the  *)
(* backup-then-delete registry command; the functions of the scanners     *)
(* (file name patterns, installed-program lookups, the registry and the   *)
(* leftover scan) called one at a time, and the large-file scan with its   *)
(* cancellation flag.                                                      *)
(*                                                                         *)
(* Paths are strings; every comparison is made on the characters, as the   *)
(* Rust code makes it (to_lowercase, starts_with, contains, ends_with).    *)
(* Chinese message literals of the source are written in pinyin, because   *)
(* strings of a module are ASCII; ASCII literals are kept as they are.     *)
(***************************************************************************)
EXTENDS Integers, Sequences, FiniteSets, TLC

\* ------------------------------------------------------------------------
\* Option values: None is the empty tuple, Some(x) the one-element tuple.
\* ------------------------------------------------------------------------
None == << >>
Some(x) == << x >>
IsSome(o) == o # None
Unwrap(o) == o[1]

\* ------------------------------------------------------------------------
\* String primitives (str::starts_with, ends_with, contains, to_lowercase)
\* ------------------------------------------------------------------------
StartsWith(s, p) == Len(p) <= Len(s) /\ SubSeq(s, 1, Len(p)) = p

EndsWith(s, p) == Len(p) <= Len(s) /\ SubSeq(s, Len(s) - Len(p) + 1, Len(s)) = p

Contains(s, p) == \E i \in 1..(Len(s) - Len(p) + 1) : SubSeq(s, i, i + Len(p) - 1) = p

CharAt(s, i) == SubSeq(s, i, i)

UpperChars == "ABCDEFGHIJKLMNOPQRSTUVWXYZ"

LowerChars == "abcdefghijklmnopqrstuvwxyz"

LowerChar(c) ==
    IF \E i \in 1..Len(UpperChars) : CharAt(UpperChars, i) = c
    THEN CharAt(LowerChars, CHOOSE i \in 1..Len(UpperChars) : CharAt(UpperChars, i) = c)
    ELSE c

RECURSIVE to_lowercase(_)
to_lowercase(s) ==
    IF Len(s) = 0 THEN ""
    ELSE LowerChar(CharAt(s, 1)) \o to_lowercase(SubSeq(s, 2, Len(s)))

\* ------------------------------------------------------------------------
\* std::path::Path on Windows: file_name and extension
\* ------------------------------------------------------------------------
IsSep(c) == c = "\\" \/ c = "/"

RECURSIVE StripTrailingSeps(_)
StripTrailingSeps(s) ==
    IF Len(s) > 0 /\ IsSep(CharAt(s, Len(s)))
    THEN StripTrailingSeps(SubSeq(s, 1, Len(s) - 1))
    ELSE s

\* index of the last separator of s, 0 when there is none
LastSep(s) ==
    LET idx == {i \in 1..Len(s) : IsSep(CharAt(s, i))}
    IN  IF idx = {} THEN 0 ELSE CHOOSE i \in idx : \A j \in idx : j <= i

\* index of the last "." of s, 0 when there is none
LastDot(s) ==
    LET idx == {i \in 1..Len(s) : CharAt(s, i) = "."}
    IN  IF idx = {} THEN 0 ELSE CHOOSE i \in idx : \A j \in idx : j <= i

\* Path::file_name: the last normal component; None for a root, a drive
\* prefix or a path that ends in ".."
file_name(path) ==
    LET t == StripTrailingSeps(path)
        i == LastSep(t)
        name == SubSeq(t, i + 1, Len(t))
    IN  IF name = "" \/ name = ".." \/ name = "."
           \/ (i = 0 /\ Len(name) = 2 /\ CharAt(name, 2) = ":")
        THEN None
        ELSE Some(name)

\* Path::extension: the part of file_name after its last ".", None when the
\* name has no "." or only a leading one
extension(path) ==
    LET fname == file_name(path)
    IN  IF fname = None THEN None
        ELSE LET n == Unwrap(fname)
                 d == LastDot(n)
             IN  IF d <= 1 THEN None ELSE Some(SubSeq(n, d + 1, Len(n)))

\* ------------------------------------------------------------------------
\* cleaner/delete_engine.rs: the delete gate
\* ------------------------------------------------------------------------
PROTECTED_PATH_PREFIXES ==
    << "c:\\windows\\system32", "c:\\windows\\syswow64", "c:\\windows\\winsxs",
       "c:\\windows\\servicing", "c:\\windows\\assembly", "c:\\windows\\boot",
       "c:\\windows\\fonts", "c:\\windows\\inf", "c:\\windows\\microsoft.net",
       "c:\\windows\\security", "c:\\program files", "c:\\program files (x86)",
       "c:\\users\\default", "c:\\users\\public\\desktop",
       "c:\\programdata\\microsoft\\windows",
       "c:\\programdata\\microsoft\\windows defender",
       "c:\\recovery", "c:\\$recycle.bin" >>

PROTECTED_FILES ==
    << "ntoskrnl.exe", "hal.dll", "ntdll.dll", "kernel32.dll", "kernelbase.dll",
       "user32.dll", "gdi32.dll", "advapi32.dll", "shell32.dll", "ole32.dll",
       "bootmgr", "bcd", "ntldr", "boot.ini", "pagefile.sys", "hiberfil.sys",
       "swapfile.sys", "desktop.ini", "ntuser.dat", "usrclass.dat",
       "config.data", "accinfo.dat", "msg.db", "micromsg.db", "contact.db",
       "emotion.db", "favorite.db", "publicmsg.db", "nt_db", "nt_config" >>

PROTECTED_EXTENSIONS_IN_WINDOWS ==
    << "sys", "dll", "exe", "drv", "ocx", "cpl",
       "msi", "msp", "msu", "cat", "mum", "manifest" >>

user_critical_paths ==
    << "\\appdata\\local", "\\appdata\\roaming", "\\documents", "\\desktop",
       "\\downloads" >>

InList(list, x) == \E i \in DOMAIN list : list[i] = x

\* layer 1: the lowercased path starts with a protected prefix
ProtectedPrefixLayer(path) ==
    LET path_str == to_lowercase(path)
    IN  \E i \in DOMAIN PROTECTED_PATH_PREFIXES :
            StartsWith(path_str, PROTECTED_PATH_PREFIXES[i])

\* layer 2: the lowercased file name is a protected file name
ProtectedFileLayer(path) ==
    /\ file_name(path) # None
    /\ InList(PROTECTED_FILES, to_lowercase(Unwrap(file_name(path))))

\* layer 3: a protected extension anywhere below a \windows\ directory
ProtectedExtensionLayer(path) ==
    /\ Contains(to_lowercase(path), "\\windows\\")
    /\ extension(path) # None
    /\ InList(PROTECTED_EXTENSIONS_IN_WINDOWS, to_lowercase(Unwrap(extension(path))))

\* layer 4 with contains in the place of ends_with
UserCriticalRootLayer_contains(path) ==
    LET path_str == to_lowercase(path)
    IN  \E i \in DOMAIN user_critical_paths : Contains(path_str, user_critical_paths[i])

\* layer 4: the path is itself a user-critical root
UserCriticalRootLayer(path) ==
    LET path_str == to_lowercase(path)
    IN  \E i \in DOMAIN user_critical_paths : EndsWith(path_str, user_critical_paths[i])

\* layer 5: a drive root
DriveRootLayer(path) ==
    LET path_str == to_lowercase(path)
    IN  Len(path_str) <= 3 /\ EndsWith(path_str, "\\")

is_protected_path(path) ==
    \/ ProtectedPrefixLayer(path)
    \/ ProtectedFileLayer(path)
    \/ ProtectedExtensionLayer(path)
    \/ UserCriticalRootLayer(path)
    \/ DriveRootLayer(path)

allowed_scopes ==
    << "\\temp", "\\tmp", "\\cache", "\\caches", "\\temporary",
       "\\appdata\\local\\temp",
       "\\appdata\\local\\microsoft\\windows\\temporary",
       "\\appdata\\local\\microsoft\\windows\\inetcache",
       "\\appdata\\local\\microsoft\\windows\\explorer",
       "\\windows\\temp", "\\windows\\prefetch",
       "\\windows\\softwaredistribution\\download",
       "\\$recycle.bin", "\\.log", "\\.tmp", "\\.bak", "\\crash", "\\dumps" >>

allowed_exts == << "tmp", "temp", "log", "bak", "old", "dmp", "etl" >>

is_in_allowed_scope(path) ==
    LET path_str == to_lowercase(path)
    IN  \/ \E i \in DOMAIN allowed_scopes : Contains(path_str, allowed_scopes[i])
        \/ /\ extension(path) # None
           /\ InList(allowed_exts, to_lowercase(Unwrap(extension(path))))

\* ------------------------------------------------------------------------
\* cleaner/enhanced_delete.rs: the gate of the enhanced engine
\* ------------------------------------------------------------------------
SAFE_OWNERSHIP_PATHS ==
    << "\\temp", "\\tmp", "\\cache", "\\caches", "\\appdata\\local\\temp",
       "\\appdata\\local\\microsoft\\windows\\temporary internet files",
       "\\appdata\\local\\microsoft\\windows\\inetcache",
       "\\appdata\\local\\microsoft\\windows\\explorer",
       "\\windows\\temp", "\\windows\\prefetch",
       "\\windows\\softwaredistribution\\download", "\\$recycle.bin" >>

is_safe_for_ownership(path) ==
    LET path_str == to_lowercase(path)
    IN  \E i \in DOMAIN SAFE_OWNERSHIP_PATHS : Contains(path_str, SAFE_OWNERSHIP_PATHS[i])

protected_prefixes ==
    << "c:\\windows\\system32", "c:\\windows\\syswow64", "c:\\windows\\winsxs",
       "c:\\program files", "c:\\program files (x86)" >>

protected_files ==
    << "ntoskrnl.exe", "hal.dll", "ntdll.dll", "kernel32.dll",
       "bootmgr", "pagefile.sys", "hiberfil.sys", "swapfile.sys" >>

is_system_protected(path) ==
    LET path_str == to_lowercase(path)
    IN  \/ \E i \in DOMAIN protected_prefixes : StartsWith(path_str, protected_prefixes[i])
        \/ /\ file_name(path) # None
           /\ InList(protected_files, to_lowercase(Unwrap(file_name(path))))

\* ------------------------------------------------------------------------
\* cleaner/permanent_delete.rs: the leftover gate (Check 3, Check 1)
\* ------------------------------------------------------------------------
PROTECTED_PATHS ==
    << "C:\\Windows", "C:\\Windows\\System32", "C:\\Windows\\SysWOW64",
       "C:\\Windows\\WinSxS", "\\Desktop", "\\Documents", "\\Downloads",
       "\\Pictures", "\\Videos", "\\Music", "C:\\Program Files",
       "C:\\Program Files (x86)", "C:\\ProgramData\\Microsoft", "C:\\Boot",
       "C:\\Recovery", "C:\\$Recycle.Bin", "C:\\System Volume Information" >>

\* str::split('\\').count(): one more than the number of backslashes
SplitCount(path) == Cardinality({i \in 1..Len(path) : CharAt(path, i) = "\\"}) + 1

\* the reason of the rejection, None when the path is not rejected
check_protected_path(path) ==
    LET path_lower == to_lowercase(path)
        hits == {i \in DOMAIN PROTECTED_PATHS :
                    \/ StartsWith(path_lower, to_lowercase(PROTECTED_PATHS[i]))
                    \/ Contains(path_lower, to_lowercase(PROTECTED_PATHS[i]))}
    IN  IF hits # {}
        THEN Some("lujing baohan shou baohu mulu: "
                  \o PROTECTED_PATHS[CHOOSE i \in hits : \A j \in hits : i <= j])
        ELSE IF Len(path) <= 3
        THEN Some("bu yunxu shanchu qudongqi gen mulu")
        ELSE IF StartsWith(path_lower, "c:\\users\\") /\ SplitCount(path) <= 3
        THEN Some("bu yunxu shanchu yonghu gen mulu")
        ELSE None

\* ------------------------------------------------------------------------
\* The paths of the model: the literal paths of the unit tests and of the
\* scenarios, one or more for each gate layer.  No path lies beneath another,
\* so the removal of one leaves the others as they are.
\* ------------------------------------------------------------------------
P_sys32   == "C:\\Windows\\System32\\drivers\\old.sys"
P_fonts   == "C:\\Windows\\Fonts\\arial.ttf"
P_ntdll   == "D:\\anywhere\\ntdll.dll"
P_ini     == "D:\\photos\\desktop.ini"
P_dll     == "C:\\Windows\\weird_folder\\thing.dll"
P_desktop == "C:\\Users\\alice\\Desktop"
P_scratch == "C:\\Users\\bob\\Desktop\\scratch.txt"
P_root    == "E:\\"
P_tmp     == "C:\\Windows\\Temp\\test.tmp"
P_log     == "C:\\Users\\Test\\AppData\\Local\\Temp\\file.log"
P_report  == "D:\\projects\\report.docx"
P_cache   == "D:\\Games\\Launcher\\Cache"

\* candidate directories of the leftover engine
L_someapp  == "C:\\Users\\test\\AppData\\Local\\SomeApp"
L_oldgame  == "C:\\Users\\test\\AppData\\Roaming\\OldGame"
L_portable == "C:\\ProgramData\\PortableKit"
L_deep     == "C:\\ProgramData\\DeepTool"
L_vs       == "C:\\Users\\test\\AppData\\Local\\Visual Studio"
L_local    == "C:\\Users\\dave\\AppData\\Local"
L_ntdb     == "D:\\Tencent\\nt_db"
L_deskdir  == "C:\\Users\\test\\Desktop\\file"
L_user     == "C:\\Users\\carol"

FilePaths == {P_sys32, P_fonts, P_ntdll, P_ini, P_dll, P_scratch, P_tmp, P_log, P_report}

LeftoverPaths ==
    {L_someapp, L_oldgame, L_portable, L_deep, L_vs, L_local, L_ntdb, L_deskdir, L_user}

DirPaths == {P_desktop, P_root, P_cache} \cup LeftoverPaths

Paths == FilePaths \cup DirPaths

\* Path::is_dir of an existing path
is_dir(path) == path \in DirPaths

\* The gates are functions of the path alone: each is evaluated once for
\* every path of the model and looked up afterwards.
ProtectedByDeleteGate == {p \in Paths : is_protected_path(p)}

InAllowedScope == {p \in Paths : is_in_allowed_scope(p)}

SystemProtectedPaths == {p \in Paths : is_system_protected(p)}

SafeForOwnership == {p \in Paths : is_safe_for_ownership(p)}

ProtectedPathReason == [p \in Paths |-> check_protected_path(p)]

\* ------------------------------------------------------------------------
\* The file system the engines act on.  An entry is what the engine can
\* observe of one path: whether it exists, and what stands in the way of
\* removing it (a read-only attribute, an access-control list that denies
\* the caller until ownership is taken, an open handle of another process).
\* ------------------------------------------------------------------------
Absent   == [exists |-> FALSE, readonly |-> FALSE, denied |-> FALSE, locked |-> FALSE]
Plain    == [exists |-> TRUE,  readonly |-> FALSE, denied |-> FALSE, locked |-> FALSE]
ReadOnly == [exists |-> TRUE,  readonly |-> TRUE,  denied |-> FALSE, locked |-> FALSE]
Denied   == [exists |-> TRUE,  readonly |-> FALSE, denied |-> TRUE,  locked |-> FALSE]
Locked   == [exists |-> TRUE,  readonly |-> FALSE, denied |-> FALSE, locked |-> TRUE]

\* fs::remove_file / fs::remove_dir_all on an entry: "Ok" or the io error
remove_result(f) ==
    IF ~f.exists THEN "NotFound"
    ELSE IF f.locked THEN "SharingViolation"
    ELSE IF f.readonly \/ f.denied THEN "PermissionDenied"
    ELSE "Ok"

\* Display of the io::Error (English system messages)
io_error_message(kind) ==
    CASE kind = "NotFound" -> "The system cannot find the file specified. (os error 2)"
      [] kind = "PermissionDenied" -> "Access is denied. (os error 5)"
      [] kind = "SharingViolation" ->
            "The process cannot access the file because it is being used by another process. (os error 32)"
      [] OTHER -> "unknown error"

\* windows_api::remove_protection_attributes / fs::set_permissions: the
\* attributes can be read only of an existing entry, and written only when
\* the access-control list lets the caller
strip_attrs_ok(f) == f.exists /\ (f.readonly => ~f.denied)

strip_attrs(f) == IF strip_attrs_ok(f) THEN [f EXCEPT !.readonly = FALSE] ELSE f

\* icacls /setowner and /grant: the caller gets full control of an existing entry
take_ownership(f) == IF f.exists THEN [f EXCEPT !.denied = FALSE] ELSE f

\* one call that acts on a path: op is "remove", "attr" (clear attributes),
\* "own" (icacls), "mark" (a reboot-time removal the system accepted),
\* "mark_refused" (one it refused) or "warn" (a line of the log only)
Op(path, op) == [path |-> path, op |-> op]

\* ------------------------------------------------------------------------
\* cleaner/delete_engine.rs: DeleteEngine::delete_single_file
\* Each operator gives [ok, reason, f, ops]: the Result, the entry after the
\* call and the side effects made, in order.
\* ------------------------------------------------------------------------
Outcome(ok, reason, f, ops) == [ok |-> ok, reason |-> reason, f |-> f, ops |-> ops]

delete_file(path, f) ==
    LET r1 == remove_result(f)
    IN  IF r1 = "Ok" THEN Outcome(TRUE, "", Absent, << Op(path, "remove") >>)
        ELSE IF r1 = "PermissionDenied"
        THEN \* clear the read-only attribute and try once more
             IF f.exists /\ strip_attrs_ok(f)
             THEN LET f2 == strip_attrs(f)
                      ops2 == << Op(path, "remove"), Op(path, "attr"), Op(path, "remove") >>
                  IN  IF remove_result(f2) = "Ok"
                      THEN Outcome(TRUE, "", Absent, ops2)
                      ELSE Outcome(FALSE, "quanxian buzu: " \o io_error_message(r1), f2, ops2)
             ELSE Outcome(FALSE, "quanxian buzu: " \o io_error_message(r1), f,
                          << Op(path, "remove"), Op(path, "attr") >>)
        ELSE Outcome(FALSE, "shanchu shibai: " \o io_error_message(r1), f,
                     << Op(path, "remove") >>)

delete_directory(path, f) ==
    LET r1 == remove_result(f)
    IN  IF r1 = "Ok" THEN Outcome(TRUE, "", Absent, << Op(path, "remove") >>)
        ELSE IF r1 = "PermissionDenied"
        THEN Outcome(FALSE, "quanxian buzu: " \o io_error_message(r1), f, << Op(path, "remove") >>)
        ELSE Outcome(FALSE, "shanchu mulu shibai: " \o io_error_message(r1), f,
                     << Op(path, "remove") >>)

\* the variant that enforces the scope layer
delete_single_file_scoped(path, f, isdir) ==
    IF ~f.exists THEN Outcome(FALSE, "wenjian bu cunzai", f, << >>)
    ELSE IF path \in ProtectedByDeleteGate
    THEN Outcome(FALSE, "xitong baohu lujing, jinzhi shanchu", f, << >>)
    ELSE IF path \notin InAllowedScope
    THEN Outcome(FALSE, "OutOfScope", f, << >>)
    ELSE IF isdir THEN delete_directory(path, f) ELSE delete_file(path, f)

\* layer 1 rejects; layer 2 (the allowed scope) only logs a warning
delete_single_file(path, f, isdir) ==
    IF ~f.exists THEN Outcome(FALSE, "wenjian bu cunzai", f, << >>)
    ELSE IF path \in ProtectedByDeleteGate
    THEN Outcome(FALSE, "xitong baohu lujing, jinzhi shanchu", f, << >>)
    ELSE LET warn == IF path \in InAllowedScope THEN << >> ELSE << Op(path, "warn") >>
             r == IF isdir THEN delete_directory(path, f) ELSE delete_file(path, f)
         IN  [r EXCEPT !.ops = warn \o r.ops]

\* ------------------------------------------------------------------------
\* cleaner/enhanced_delete.rs: EnhancedDeleteEngine
\* ------------------------------------------------------------------------
\* DeleteFailureReason: the unit variants are their names, Other(msg) a pair
Other(msg) == << "Other", msg >>

\* EnhancedDeleteEngine::new()
DefaultConfig == [enable_reboot_delete |-> TRUE, enable_take_ownership |-> TRUE]

\* fs::metadata succeeds on every existing entry, an open handle of another
\* process included
get_last_error_message(f) ==
    IF f.exists THEN "wenjian bei suoding huo zhengzai shiyong"
    ELSE io_error_message("NotFound")

\* the attempt of one tier: its name and whether it removed the entry
Tier(name, ok) == [tier |-> name, ok |-> ok]

\* the variant that takes ownership wherever the earlier tiers failed
try_delete_any_owner(path, f, cfg) ==
    LET r1 == remove_result(f)
        a_ok == strip_attrs_ok(f)
        f2 == strip_attrs(f)
        r2 == IF a_ok THEN remove_result(f2) ELSE "AttributesUnchanged"
        own == cfg.enable_take_ownership
        f3 == IF own THEN take_ownership(f2) ELSE f2
        r3 == IF own THEN remove_result(f3) ELSE "NotTried"
        ops1 == << Op(path, "remove") >>
        ops2 == ops1 \o << Op(path, "attr") >>
                     \o (IF a_ok THEN << Op(path, "remove") >> ELSE << >>)
        ops3 == ops2 \o (IF own THEN << Op(path, "own"), Op(path, "remove") >> ELSE << >>)
        t1 == << Tier("direct", r1 = "Ok") >>
        t2 == t1 \o << Tier("attrs", r2 = "Ok") >>
        t3 == t2 \o (IF own THEN << Tier("ownership", r3 = "Ok") >> ELSE << >>)
    IN  IF r1 = "Ok" THEN [ok |-> TRUE, f |-> Absent, ops |-> ops1, tiers |-> t1, e |-> ""]
        ELSE IF r2 = "Ok" THEN [ok |-> TRUE, f |-> Absent, ops |-> ops2, tiers |-> t2, e |-> ""]
        ELSE IF r3 = "Ok" THEN [ok |-> TRUE, f |-> Absent, ops |-> ops3, tiers |-> t3, e |-> ""]
        ELSE [ok |-> FALSE, f |-> f3, ops |-> ops3, tiers |-> t3,
              e |-> get_last_error_message(f3)]

\* the variant that goes through every tier, whatever the earlier ones gave
try_delete_every_tier(path, f, cfg) ==
    LET r1 == remove_result(f)
        a_ok == strip_attrs_ok(f)
        f2 == strip_attrs(f)
        r2 == IF a_ok THEN remove_result(f2) ELSE "AttributesUnchanged"
        own == cfg.enable_take_ownership /\ path \in SafeForOwnership
        f3 == IF own THEN take_ownership(f2) ELSE f2
        r3 == IF own THEN remove_result(f3) ELSE "NotTried"
        ok == r1 = "Ok" \/ r2 = "Ok" \/ r3 = "Ok"
    IN  [ok |-> ok, f |-> IF ok THEN Absent ELSE f3,
         ops |-> << Op(path, "remove"), Op(path, "attr") >>
                 \o (IF a_ok THEN << Op(path, "remove") >> ELSE << >>)
                 \o (IF own THEN << Op(path, "own"), Op(path, "remove") >> ELSE << >>),
         tiers |-> << Tier("direct", r1 = "Ok"), Tier("attrs", r2 = "Ok") >>
                   \o (IF own THEN << Tier("ownership", r3 = "Ok") >> ELSE << >>),
         e |-> IF ok THEN "" ELSE get_last_error_message(f3)]

\* EnhancedDeleteEngine::try_delete: direct remove, then remove the protection
\* attributes and retry, then (in the safe directories only) take ownership
\* and retry; the error message when every tier failed
try_delete(path, f, cfg) ==
    LET r1 == remove_result(f)
        a_ok == strip_attrs_ok(f)
        f2 == strip_attrs(f)
        r2 == IF a_ok THEN remove_result(f2) ELSE "AttributesUnchanged"
        own == cfg.enable_take_ownership /\ path \in SafeForOwnership
        f3 == IF own THEN take_ownership(f2) ELSE f2
        r3 == IF own THEN remove_result(f3) ELSE "NotTried"
        ops1 == << Op(path, "remove") >>
        ops2 == ops1 \o << Op(path, "attr") >>
                     \o (IF a_ok THEN << Op(path, "remove") >> ELSE << >>)
        ops3 == ops2 \o (IF own THEN << Op(path, "own"), Op(path, "remove") >> ELSE << >>)
        t1 == << Tier("direct", r1 = "Ok") >>
        t2 == t1 \o << Tier("attrs", r2 = "Ok") >>
        t3 == t2 \o (IF own THEN << Tier("ownership", r3 = "Ok") >> ELSE << >>)
    IN  IF r1 = "Ok" THEN [ok |-> TRUE, f |-> Absent, ops |-> ops1, tiers |-> t1, e |-> ""]
        ELSE IF r2 = "Ok" THEN [ok |-> TRUE, f |-> Absent, ops |-> ops2, tiers |-> t2, e |-> ""]
        ELSE IF r3 = "Ok" THEN [ok |-> TRUE, f |-> Absent, ops |-> ops3, tiers |-> t3, e |-> ""]
        ELSE [ok |-> FALSE, f |-> f3, ops |-> ops3, tiers |-> t3,
              e |-> get_last_error_message(f3)]

\* the variant that knows the English system messages only
is_locked_message_english(e) ==
    \/ Contains(e, "sharing violation")
    \/ Contains(e, "access is denied")

\* the lock test made on the error message
is_locked_message(e) ==
    \/ Contains(e, "zhengzai shiyong")
    \/ Contains(e, "bei ling yige jincheng")
    \/ Contains(e, "sharing violation")
    \/ Contains(e, "access is denied")

is_permission_message(e) == Contains(e, "quanxian") \/ Contains(e, "permission")

\* windows_api::mark_for_delete_on_reboot: MoveFileExW succeeds on an existing
\* entry when the system accepts the pending rename (mark_ok), never on a
\* missing one
mark_for_delete_on_reboot(f, mark_ok) == f.exists /\ mark_ok

FileDeleteResult(path, success, failure_reason, marked_for_reboot, tiers) ==
    [path |-> path, success |-> success, failure_reason |-> failure_reason,
     marked_for_reboot |-> marked_for_reboot, tiers |-> tiers]

\* the variant that reports a marked file as removed
marked_result_as_success(path, tiers) ==
    FileDeleteResult(path, TRUE, None, TRUE, tiers)

\* the result of a file the system will remove at the next start
marked_result(path, tiers) ==
    FileDeleteResult(path, FALSE, Some("MarkedForReboot"), TRUE, tiers)

\* EnhancedDeleteEngine::delete_single_file, as [result, f, ops].  vanish: some
\* other process removes the entry between the existence check and the first
\* removal attempt; mark_ok: the system accepts a reboot-time removal.
enhanced_delete_single_file(path, f, cfg, vanish, mark_ok) ==
    IF ~f.exists
    THEN [result |-> FileDeleteResult(path, FALSE, Some("NotFound"), FALSE, << >>),
          f |-> f, ops |-> << >>]
    ELSE IF path \in SystemProtectedPaths
    THEN [result |-> FileDeleteResult(path, FALSE, Some("SystemProtected"), FALSE, << >>),
          f |-> f, ops |-> << >>]
    ELSE
      LET t == try_delete(path, IF vanish THEN Absent ELSE f, cfg)
      IN  IF t.ok
          THEN [result |-> FileDeleteResult(path, TRUE, None, FALSE, t.tiers),
                f |-> t.f, ops |-> t.ops]
          ELSE IF is_locked_message(t.e) /\ cfg.enable_reboot_delete
          THEN IF path \in SafeForOwnership /\ mark_for_delete_on_reboot(t.f, mark_ok)
               THEN [result |-> marked_result(path, t.tiers),
                     f |-> t.f, ops |-> t.ops \o << Op(path, "mark") >>]
               ELSE [result |-> FileDeleteResult(path, FALSE, Some("FileLocked"), FALSE, t.tiers),
                     f |-> t.f,
                     ops |-> t.ops \o (IF path \in SafeForOwnership
                                       THEN << Op(path, "mark_refused") >> ELSE << >>)]
          ELSE IF is_permission_message(t.e)
          THEN [result |-> FileDeleteResult(path, FALSE, Some("PermissionDenied"), FALSE, t.tiers),
                f |-> t.f, ops |-> t.ops]
          ELSE [result |-> FileDeleteResult(path, FALSE, Some(Other(t.e)), FALSE, t.tiers),
                f |-> t.f, ops |-> t.ops]

\* ------------------------------------------------------------------------
\* cleaner/permanent_delete.rs: PermanentDeleteEngine
\* ------------------------------------------------------------------------
EXECUTABLE_EXTENSIONS == << "exe", "dll", "sys", "drv", "ocx", "cpl", "scr" >>

max_depth == 5

max_results == 10

\* the least length of a folder name and of an index entry that may match
min_match_len == 4

\* installed_apps_cache: the lowercased DisplayName, InstallLocation, its
\* last component and Publisher of the uninstall keys
installed_apps_cache ==
    { "visual studio code", "visual studio 2019", "c:\\program files\\7-zip",
      "7-zip", "igor pavlov", "git" }

\* one entry of a WalkDir walk: its file name, its depth below the root
\* (the root is at depth 0) and whether it is a file
Entry(name, depth, isfile) == [name |-> name, depth |-> depth, is_file |-> isfile]

\* what lies in each candidate directory, in the order WalkDir yields it
dir_entries(path) ==
    CASE path = L_someapp ->
            << Entry("settings.json", 1, TRUE), Entry("logs", 1, FALSE),
               Entry("app.log", 2, TRUE) >>
      [] path = L_oldgame ->
            << Entry("save.dat", 1, TRUE), Entry("game.exe", 1, TRUE) >>
      [] path = L_portable ->
            << Entry("a01.exe", 1, TRUE), Entry("a02.DLL", 1, TRUE), Entry("a03.sys", 1, TRUE),
               Entry("readme.txt", 1, TRUE), Entry("bin", 1, FALSE),
               Entry("a04.drv", 2, TRUE), Entry("a05.ocx", 2, TRUE), Entry("a06.cpl", 2, TRUE),
               Entry("a07.scr", 2, TRUE), Entry("a08.Exe", 2, TRUE), Entry("a09.exe", 2, TRUE),
               Entry("a10.exe", 2, TRUE), Entry("a11.exe", 2, TRUE), Entry("a12.exe", 2, TRUE) >>
      [] path = L_deep ->
            << Entry("d1", 1, FALSE), Entry("d2", 2, FALSE), Entry("d3", 3, FALSE),
               Entry("d4", 4, FALSE), Entry("d5", 5, FALSE), Entry("notes.txt", 5, TRUE),
               Entry("deep.exe", 6, TRUE) >>
      [] path = L_vs ->
            << Entry("state.json", 1, TRUE) >>
      [] path = L_local ->
            << Entry("IconCache.db", 1, TRUE) >>
      [] path = L_ntdb ->
            << Entry("nt_msg.db", 1, TRUE) >>
      [] path = L_deskdir ->
            << Entry("holiday.jpg", 1, TRUE) >>
      [] path = L_user ->
            << Entry("ntuser.dat", 1, TRUE) >>
      [] OTHER -> << >>

\* Check 1: the index entries that match the folder name; the engine reports
\* the first one its HashSet iteration meets
check_registry_presence(folder_name) ==
    LET folder_lower == to_lowercase(folder_name)
    IN  {app \in installed_apps_cache :
            /\ Contains(app, folder_lower) \/ Contains(folder_lower, app)
            /\ Len(folder_lower) >= min_match_len /\ Len(app) >= min_match_len}

\* Check 2: the names of the executable files met in a walk of depth at most
\* max_depth, the walk being left once max_results names are held
RECURSIVE scan_walk(_, _)
scan_walk(entries, executables) ==
    IF entries = << >> \/ Len(executables) >= max_results THEN executables
    ELSE LET entry == Head(entries)
             ext == extension(entry.name)
             hit == /\ entry.is_file
                    /\ ext # None
                    /\ InList(EXECUTABLE_EXTENSIONS, to_lowercase(Unwrap(ext)))
         IN  scan_walk(Tail(entries),
                       IF hit THEN Append(executables, entry.name) ELSE executables)

\* the variant whose walk has no depth limit
scan_executables_any_depth(path) == scan_walk(dir_entries(path), << >>)

scan_executables(path) ==
    scan_walk(SelectSeq(dir_entries(path), LAMBDA e : e.depth <= max_depth), << >>)

\* SafetyCheckResult
Safe == [kind |-> "Safe"]
InProtectedPath(reason) == [kind |-> "InProtectedPath", reason |-> reason]
FoundInRegistry(field, value) ==
    [kind |-> "FoundInRegistry", matched_field |-> field, matched_value |-> value]
ContainsExecutables(files) == [kind |-> "ContainsExecutables", files |-> files]

\* the gate of a candidate whose directory exists, evaluated once for each
RegistryMatches == [p \in LeftoverPaths |->
                        check_registry_presence(
                            IF file_name(p) = None THEN ""
                            ELSE to_lowercase(Unwrap(file_name(p))))]

ExecutablesFound == [p \in LeftoverPaths |-> scan_executables(p)]

\* PermanentDeleteEngine::perform_safety_checks: the verdicts the call may
\* return (one, but for the registry match, whose value is the first entry
\* the iteration over the index meets).  A missing directory holds nothing.
perform_safety_checks(path, f) ==
    IF ProtectedPathReason[path] # None
    THEN { InProtectedPath(Unwrap(ProtectedPathReason[path])) }
    ELSE IF RegistryMatches[path] # {}
    THEN { FoundInRegistry("yi anzhuang chengxu", app) : app \in RegistryMatches[path] }
    ELSE IF f.exists /\ ExecutablesFound[path] # << >>
    THEN { ContainsExecutables(ExecutablesFound[path]) }
    ELSE { Safe }

\* SafetyCheckResult::display_message
RECURSIVE join(_, _)
join(list, sep) ==
    IF list = << >> THEN ""
    ELSE IF Len(list) = 1 THEN list[1]
    ELSE list[1] \o sep \o join(Tail(list), sep)

Digits == "0123456789"

RECURSIVE to_string(_)
to_string(n) ==
    IF n < 10 THEN CharAt(Digits, n + 1)
    ELSE to_string(n \div 10) \o CharAt(Digits, (n % 10) + 1)

display_message(check) ==
    CASE check.kind = "Safe" -> "anquan"
      [] check.kind = "FoundInRegistry" ->
            "zhucebiao zhong cunzai pipei: " \o check.matched_field \o " = " \o check.matched_value
      [] check.kind = "ContainsExecutables" ->
            LET count == Len(check.files)
                preview == SubSeq(check.files, 1, IF count < 3 THEN count ELSE 3)
            IN  IF count > 3
                THEN "baohan " \o to_string(count) \o " ge kezhixing wenjian: "
                     \o join(preview, ", ") \o " deng"
                ELSE "baohan kezhixing wenjian: " \o join(preview, ", ")
      [] check.kind = "InProtectedPath" -> "xitong baohu lujing: " \o check.reason

LeftoverDeleteResult(path, success, failure_reason, marked, review, check) ==
    [path |-> path, success |-> success, failure_reason |-> failure_reason,
     marked_for_reboot |-> marked, needs_manual_review |-> review, safety_check |-> check]

\* PermanentDeleteEngine::try_remove_dir_all, as [ok, f, ops, e]: a second
\* removal is tried, after the protection attributes of every entry were
\* cleared (errors ignored), only when the first was denied
try_remove_dir_all(path, f) ==
    LET r1 == remove_result(f)
        f2 == strip_attrs(f)
        r2 == remove_result(f2)
    IN  IF r1 = "Ok"
        THEN [ok |-> TRUE, f |-> Absent, ops |-> << Op(path, "remove") >>, e |-> ""]
        ELSE IF r1 = "PermissionDenied"
        THEN [ok |-> r2 = "Ok",
              f |-> IF r2 = "Ok" THEN Absent ELSE f2,
              ops |-> << Op(path, "remove"), Op(path, "attr"), Op(path, "remove") >>,
              e |-> IF r2 = "Ok" THEN "" ELSE io_error_message(r2)]
        ELSE [ok |-> FALSE, f |-> f, ops |-> << Op(path, "remove") >>,
              e |-> io_error_message(r1)]

\* PermanentDeleteEngine::delete_single_leftover, as [result, f, ops];
\* enable_reboot_fallback is set by new() and never cleared
delete_single_leftover(path, f, mark_ok) ==
    LET t == try_remove_dir_all(path, f)
    IN  IF t.ok
        THEN [result |-> LeftoverDeleteResult(path, TRUE, None, FALSE, FALSE, Safe),
              f |-> t.f, ops |-> t.ops]
        ELSE IF mark_for_delete_on_reboot(t.f, mark_ok)
        THEN [result |-> LeftoverDeleteResult(path, FALSE, Some("yi biaoji wei chongqi hou shanchu"),
                                              TRUE, FALSE, Safe),
              f |-> t.f, ops |-> t.ops \o << Op(path, "mark") >>]
        ELSE [result |-> LeftoverDeleteResult(path, FALSE, Some("shanchu shibai: " \o t.e),
                                              FALSE, FALSE, Safe),
              f |-> t.f, ops |-> t.ops \o << Op(path, "mark_refused") >>]

\* the result of a candidate the gate refused
refused_leftover(path, check) ==
    LeftoverDeleteResult(path, FALSE, Some(display_message(check)), FALSE,
                         check.kind = "ContainsExecutables", check)

\* the variant in which a candidate marked for reboot is a failure as well
leftover_counters_marked_failed(check, result) ==
    IF check.kind = "Safe"
    THEN IF result.success THEN {"success"}
         ELSE IF result.marked_for_reboot THEN {"reboot_pending", "failed"}
         ELSE {"failed"}
    ELSE IF check.kind = "ContainsExecutables" THEN {"manual_review"}
    ELSE {"failed"}

\* the atomic counters a worker of delete_leftovers adds one to
leftover_counters(check, result) ==
    IF check.kind = "Safe"
    THEN IF result.success THEN {"success"}
         ELSE IF result.marked_for_reboot THEN {"reboot_pending"}
         ELSE {"failed"}
    ELSE IF check.kind = "ContainsExecutables" THEN {"manual_review"}
    ELSE {"failed"}

\* the counters EnhancedDeleteEngine::delete_files adds one to
enhanced_counters(result) ==
    IF result.failure_reason = None THEN {"success"}
    ELSE IF result.failure_reason = Some("MarkedForReboot") THEN {"reboot_pending"}
    ELSE {"failed"}

\* the counters DeleteEngine::delete_paths adds one to
delete_counters(outcome) == IF outcome.ok THEN {"success"} ELSE {"failed"}

\* ------------------------------------------------------------------------
\* cleaner/enhanced_delete.rs: calculate_physical_size
\* A u64 is held as its eight bytes, the most significant first, and the
\* operations of the machine are made on the bytes, so that the carry out of
\* the 64 bits is there to be seen.
\* ------------------------------------------------------------------------
\* the bytes of a u64
U64Bytes == 8

Zero64 == [k \in 1..U64Bytes |-> 0]

\* a number below 2^24 as a u64
RECURSIVE ToBytes(_, _)
ToBytes(n, len) == IF len = 0 THEN << >> ELSE Append(ToBytes(n \div 256, len - 1), n % 256)

U64(n) == ToBytes(n, U64Bytes)

\* a + b on the bytes: [value, carry], the value being the sum modulo 2^64
RECURSIVE AddFrom(_, _, _, _)
AddFrom(a, b, k, carry) ==
    IF k = 0 THEN [value |-> << >>, carry |-> carry]
    ELSE LET s == a[k] + b[k] + carry
             rest == AddFrom(a, b, k - 1, s \div 256)
         IN  [value |-> Append(rest.value, s % 256), carry |-> rest.carry]

Add64(a, b) == AddFrom(a, b, U64Bytes, 0)

\* a - b on the bytes: [value, borrow], the value being the difference modulo 2^64
RECURSIVE SubFrom(_, _, _, _)
SubFrom(a, b, k, borrow) ==
    IF k = 0 THEN [value |-> << >>, borrow |-> borrow]
    ELSE LET d == a[k] - b[k] - borrow
             rest == SubFrom(a, b, k - 1, IF d < 0 THEN 1 ELSE 0)
         IN  [value |-> Append(rest.value, IF d < 0 THEN d + 256 ELSE d),
              borrow |-> rest.borrow]

Sub64(a, b) == SubFrom(a, b, U64Bytes, 0)

\* a / d and a % d for a divisor below 2^23, by long division
RECURSIVE DivFrom(_, _, _, _)
DivFrom(a, d, k, rem) ==
    IF k > U64Bytes THEN [quot |-> << >>, rem |-> rem]
    ELSE LET cur == rem * 256 + a[k]
             rest == DivFrom(a, d, k + 1, cur % d)
         IN  [quot |-> << cur \div d >> \o rest.quot, rem |-> rest.rem]

Div64(a, d) == DivFrom(a, d, 1, 0)

\* a * m for a factor below 2^23: [value, carry], the value modulo 2^64
RECURSIVE MulFrom(_, _, _, _)
MulFrom(a, m, k, carry) ==
    IF k = 0 THEN [value |-> << >>, carry |-> carry]
    ELSE LET p == a[k] * m + carry
             rest == MulFrom(a, m, k - 1, p \div 256)
         IN  [value |-> Append(rest.value, p % 256), carry |-> rest.carry]

Mul64(a, m) == MulFrom(a, m, U64Bytes, 0)

\* a <= b
RECURSIVE LeqFrom(_, _, _)
LeqFrom(a, b, k) ==
    IF k > U64Bytes THEN TRUE
    ELSE IF a[k] # b[k] THEN a[k] < b[k]
    ELSE LeqFrom(a, b, k + 1)

Leq64(a, b) == LeqFrom(a, b, 1)

\* the outcome of an arithmetic expression: a value, or the panic of a build
\* with overflow checks ("attempt to add with overflow")
Value(v) == [panic |-> FALSE, value |-> v]
Panic == [panic |-> TRUE, value |-> Zero64]

\* EnhancedDeleteEngine::calculate_physical_size:
\* ((logical_size + cluster_size - 1) / cluster_size) * cluster_size, the
\* operands being u64: a build with overflow checks panics where the sum,
\* the difference or the product leaves the 64 bits, a build without wraps
calculate_physical_size(logical_size, cluster_size, overflow_checks) ==
    IF logical_size = Zero64 THEN Value(Zero64)
    ELSE LET sum == Add64(logical_size, U64(cluster_size))
             dif == Sub64(sum.value, U64(1))
             quo == Div64(dif.value, cluster_size).quot
             pro == Mul64(quo, cluster_size)
         IN  IF overflow_checks /\ (sum.carry # 0 \/ dif.borrow # 0 \/ pro.carry # 0)
             THEN Panic
             ELSE Value(pro.value)

\* the cluster sizes GetDiskFreeSpaceW reports for the usual volumes
ClusterSizes == {512, 4096, 65536}

\* the logical sizes of the model: the sizes about a cluster boundary, at
\* the bottom, in the middle and at the top of the 64 bits
LowWords == {0, 1, 511, 512, 513, 4095, 4096, 4097, 61440, 61441, 65024, 65025, 65535}

LogicalSizes ==
    {[k \in 1..U64Bytes |->
         IF k <= U64Bytes - 3 THEN hi
         ELSE IF k = U64Bytes - 2 THEN mid
         ELSE IF k = U64Bytes - 1 THEN low \div 256
         ELSE low % 256] : hi \in {0, 255}, mid \in {0, 1, 255}, low \in LowWords}

\* ------------------------------------------------------------------------
\* scanner/registry.rs and commands.rs: the backup and the removal of
\* registry entries
\* ------------------------------------------------------------------------
RegistryEntry(path, name, entry_type) == [path |-> path, name |-> name, entry_type |-> entry_type]

E_oldapp == RegistryEntry("HKEY_CURRENT_USER\\Software\\OldApp", "OldApp", "SoftwareKey")
E_mui == RegistryEntry("HKEY_CURRENT_USER\\Software\\Classes\\MuiCache",
                       "C:\\Gone\\gone.exe.FriendlyAppName", "MuiCache")
E_ghost == RegistryEntry("HKEY_USERS\\S-1-5-18\\Software\\Ghost", "Ghost", "SoftwareKey")

RegEntries == {E_oldapp, E_mui, E_ghost}

\* the order in which the scan lists the entries
ScanOrder == << E_oldapp, E_mui, E_ghost >>

\* the seconds chrono::Local::now() may read while the requests run
Seconds == 0..1

\* parse_registry_path: the root key and the path below it, of the three
\* roots the function knows
parse_registry_path(path) ==
    LET roots == << "HKEY_CURRENT_USER\\", "HKEY_LOCAL_MACHINE\\", "HKEY_CLASSES_ROOT\\" >>
        hits == {k \in DOMAIN roots : StartsWith(path, roots[k])}
    IN  IF hits = {} THEN None
        ELSE LET k == CHOOSE h \in hits : \A g \in hits : h <= g
             IN  Some(<< roots[k], SubSeq(path, Len(roots[k]) + 1, Len(path)) >>)

Parsed == [e \in RegEntries |-> parse_registry_path(e.path)]

\* delete_registry_entry, as [ok, registry, e]: the registry holds the
\* entries that are there; access_ok tells whether the key opens for writing
delete_registry_entry(entry, reg, access_ok) ==
    IF Parsed[entry] = None
    THEN [ok |-> FALSE, registry |-> reg, e |-> "wufa jiexi zhucebiao lujing: " \o entry.path]
    ELSE IF ~access_ok
    THEN [ok |-> FALSE, registry |-> reg,
          e |-> IF entry.entry_type = "MuiCache" THEN "dakai zhucebiao jian shibai"
                ELSE "dakai fujian shibai"]
    ELSE IF entry \notin reg
    THEN [ok |-> FALSE, registry |-> reg,
          e |-> IF entry.entry_type = "MuiCache" THEN "shanchu zhucebiao zhi shibai"
                ELSE "shanchu zhucebiao jian shibai"]
    ELSE [ok |-> TRUE, registry |-> reg \ {entry}, e |-> ""]

\* one delete_registry_entries request: its list, the step it stands at,
\* the index into the list, the backup file it writes, whether export_backup
\* has returned Ok, the RegistryDeleteResult it builds, the Result it
\* returned, the entries it handed to delete_registry_entry and the registry
\* as it was when the request came in
Request(entries, reg) ==
    [entries |-> entries, pc |-> "mkdir", k |-> 1, file |-> None, exported |-> FALSE,
     deleted_count |-> 0, failed_entries |-> << >>, errors |-> << >>,
     result |-> None, calls |-> << >>, registry_at_call |-> reg]

\* the variant in which a failed export is logged and the request goes on
after_export_error_ignored(req, msg) ==
    [req EXCEPT !.pc = "delete", !.k = 1,
                !.file = IF req.file = None THEN Some(0) ELSE req.file]

\* export_backup(..).map_err(..)?: the request returns the error
after_export_error(req, msg) ==
    [req EXCEPT !.pc = "returned",
                !.result = Some([ok |-> FALSE, e |-> "chuangjian beifen shibai: " \o msg])]

\* a .reg file: whether its header is written, and its sections
EmptyFile == [header |-> FALSE, sections |-> << >>]

\* ------------------------------------------------------------------------
\* Bounds of the model
\* ------------------------------------------------------------------------
\* the longest list of paths of one request
MaxPaths == 2

\* the longest list of entries of one delete_registry_entries request
MaxEntries == 2

\* ------------------------------------------------------------------------
\* State
\* ------------------------------------------------------------------------
VARIABLES
    engine,     \* the command served: "delete", "enhanced" or "leftover"
    cfg,        \* the settings of the enhanced engine
    paths,      \* the request: the list of paths
    fs,         \* the file system: path -> entry
    pos,        \* the index of the next path of a sequential engine
    results,    \* the per-candidate outcomes of the result returned
    counts,     \* success / failed / reboot_pending / manual_review counters
    oplog,      \* index -> the calls made for that candidate, in order
    found,      \* index -> the entry the engine met when it took the candidate
    phase,      \* "running" or "returned"
    wpc,        \* leftover workers: index -> "check", "delete", "count", "done"
    wcheck,     \* leftover workers: index -> the verdict of the gate
    wres,       \* leftover workers: index -> the result of the candidate
    registry,   \* the registry entries that are there
    backup_dir, \* whether the directory of the backups exists
    backups,    \* second of the file name -> the backup file, None when absent
    clock,      \* the second chrono::Local::now() reads
    rq,         \* the delete_registry_entries requests under way
    logical_size,     \* the argument of calculate_physical_size
    cluster_size,     \* the cluster size the engine holds
    overflow_checks,  \* whether the build checks the integer arithmetic
    physical_size,    \* the outcome of the call, None before it
    call,       \* a call of a function of the scanners: its name and arguments
    ret,        \* the value the call returned, None before it returns
    LARGE_FILE_SCAN_CANCELLED,  \* the process-wide flag of the large-file scan
    walk,       \* the entries WalkDir yields for C:\, in its order
    wpos,       \* the index of the next entry of the walk
    heap,       \* the entries the BinaryHeap holds
    file_count, \* the files counted so far
    events,     \* the events emitted to the window, in order
    scan_pc,    \* "idle", "walking" or "returned"
    scan_result,\* the value scan_large_files returned, None before it
    cancel_at,  \* the position of the walk when cancel was first requested
    categories, \* the categories ScanEngine::scan was given
    handles,    \* the worker threads of the scan: index -> where the thread stands
    worker_result,    \* index -> the CategoryScanResult the thread holds
    category_results, \* the vector behind the mutex the threads push to
    scan_main,  \* the caller of scan: "spawn", "join", "sum" or "returned"
    scan_index, \* the index of the loop the caller is in
    scan_output,\* the ScanResult being built, and returned
    scans       \* the scan_large_files commands under way: call -> its walk

deletion_vars == << engine, cfg, paths, fs, pos, results, counts, oplog, found, phase, wpc,
                   wcheck, wres >>

registry_vars == << registry, backup_dir, backups, clock, rq >>

phys_vars == << logical_size, cluster_size, overflow_checks, physical_size >>

pure_vars == << call, ret >>

large_vars == << LARGE_FILE_SCAN_CANCELLED, walk, wpos, heap, file_count, events, scan_pc,
                scan_result, cancel_at >>

scan_vars == << categories, handles, worker_result, category_results, scan_main, scan_index,
               scan_output >>

cancel_vars == << scans >>

vars == << deletion_vars, registry_vars, phys_vars, pure_vars, large_vars, scan_vars,
          cancel_vars >>

ZeroCounts == [success |-> 0, failed |-> 0, reboot_pending |-> 0, manual_review |-> 0]

Bump(c, names) == [k \in DOMAIN c |-> IF k \in names THEN c[k] + 1 ELSE c[k]]

Total(c) == c.success + c.failed + c.reboot_pending + c.manual_review

\* The requests of the model: a path with the entry the file system holds for it.
Cand(path, f) == [path |-> path, f |-> f]

DeleteCands ==
    {Cand(p, Plain) : p \in {P_sys32, P_fonts, P_ntdll, P_ini, P_dll, P_desktop, P_root}}
    \cup {Cand(P_sys32, Absent), Cand(P_tmp, Absent)}
    \cup {Cand(p, f) : p \in {P_scratch, P_report, P_tmp, P_cache},
                       f \in {Plain, ReadOnly, Denied, Locked}}

EnhancedCands ==
    {Cand(p, Plain) : p \in {P_sys32, P_ntdll, P_fonts, P_desktop, P_root}}
    \cup {Cand(P_sys32, Absent)}
    \cup {Cand(p, f) : p \in {P_tmp, P_report},
                       f \in {Plain, ReadOnly, Denied, Locked, Absent}}

LeftoverCands ==
    {Cand(p, Plain) : p \in LeftoverPaths}
    \cup {Cand(L_someapp, f) : f \in {ReadOnly, Denied, Locked, Absent}}

Configs ==
    { DefaultConfig,
      [DefaultConfig EXCEPT !.enable_reboot_delete = FALSE],
      [DefaultConfig EXCEPT !.enable_take_ownership = FALSE] }

\* the lists of at most MaxPaths candidates that give each path one entry
Requests(cands) ==
    {r \in UNION {[1..n -> cands] : n \in 0..MaxPaths} :
        \A i, j \in DOMAIN r : r[i].path = r[j].path => r[i].f = r[j].f}

InitFs(r) ==
    [p \in Paths |-> IF \E i \in DOMAIN r : r[i].path = p
                     THEN r[CHOOSE i \in DOMAIN r : r[i].path = p].f
                     ELSE Plain]

\* no delete_registry_entries request, no call of calculate_physical_size
RegistryIdle ==
    /\ registry = {}
    /\ backup_dir = FALSE
    /\ backups = [t \in Seconds |-> None]
    /\ clock = 0
    /\ rq = << >>

PhysIdle ==
    /\ logical_size = Zero64
    /\ cluster_size = 4096
    /\ overflow_checks = FALSE
    /\ physical_size = None

\* no call of a scanner function
PureIdle ==
    /\ call = None
    /\ ret = None

\* no ScanEngine::scan
ScanIdle ==
    /\ categories = << >>
    /\ handles = << >>
    /\ worker_result = << >>
    /\ category_results = << >>
    /\ scan_main = "returned"
    /\ scan_index = 1
    /\ scan_output = None

\* no concurrent scan_large_files commands
CancelIdle == scans = << >>

\* no scan_large_files command
LargeIdle ==
    /\ LARGE_FILE_SCAN_CANCELLED = FALSE
    /\ walk = << >>
    /\ wpos = 1
    /\ heap = {}
    /\ file_count = 0
    /\ events = << >>
    /\ scan_pc = "idle"
    /\ scan_result = None
    /\ cancel_at = None

\* no deletion command
DeletionIdle ==
    /\ engine = "none"
    /\ cfg = DefaultConfig
    /\ paths = << >>
    /\ fs = [p \in Paths |-> Plain]
    /\ pos = 1
    /\ results = << >>
    /\ counts = ZeroCounts
    /\ oplog = << >>
    /\ found = << >>
    /\ phase = "returned"
    /\ wpc = << >>
    /\ wcheck = << >>
    /\ wres = << >>

DeletionInit ==
    /\ RegistryIdle /\ PhysIdle /\ PureIdle /\ LargeIdle /\ ScanIdle /\ CancelIdle
    /\ engine \in {"delete", "enhanced", "leftover"}
    /\ cfg \in (IF engine = "enhanced" THEN Configs ELSE {DefaultConfig})
    /\ \E r \in Requests(CASE engine = "delete" -> DeleteCands
                           [] engine = "enhanced" -> EnhancedCands
                           [] engine = "leftover" -> LeftoverCands) :
          /\ paths = [i \in DOMAIN r |-> r[i].path]
          /\ fs = InitFs(r)
    /\ pos = 1
    /\ results = << >>
    /\ counts = ZeroCounts
    /\ oplog = [i \in DOMAIN paths |-> << >>]
    /\ found = [i \in DOMAIN paths |-> None]
    /\ phase = "running"
    /\ wpc = [i \in DOMAIN paths |-> IF engine = "leftover" THEN "check" ELSE "done"]
    /\ wcheck = [i \in DOMAIN paths |-> None]
    /\ wres = [i \in DOMAIN paths |-> None]

\* ------------------------------------------------------------------------
\* DeleteEngine::delete_paths: one pass of the loop, and the return
\* ------------------------------------------------------------------------
DeletePathsStep ==
    /\ engine = "delete" /\ phase = "running" /\ pos <= Len(paths)
    /\ LET path == paths[pos]
           o == delete_single_file(path, fs[path], is_dir(path))
       IN  /\ fs' = [fs EXCEPT ![path] = o.f]
           /\ oplog' = [oplog EXCEPT ![pos] = o.ops]
           /\ found' = [found EXCEPT ![pos] = Some(fs[path])]
           /\ results' = Append(results, [path |-> path, ok |-> o.ok, reason |-> o.reason])
           /\ counts' = Bump(counts, delete_counters(o))
    /\ pos' = pos + 1
    /\ UNCHANGED << engine, cfg, paths, phase, wpc, wcheck, wres >>
    /\ UNCHANGED << registry_vars, phys_vars, pure_vars, large_vars, scan_vars, cancel_vars >>

DeletePathsReturn ==
    /\ engine = "delete" /\ phase = "running" /\ pos > Len(paths)
    /\ phase' = "returned"
    /\ UNCHANGED << engine, cfg, paths, fs, pos, results, counts, oplog, found, wpc, wcheck,
                    wres >>
    /\ UNCHANGED << registry_vars, phys_vars, pure_vars, large_vars, scan_vars, cancel_vars >>

\* ------------------------------------------------------------------------
\* EnhancedDeleteEngine::delete_files: one pass of the loop, and the return
\* ------------------------------------------------------------------------
EnhancedDeleteStep ==
    /\ engine = "enhanced" /\ phase = "running" /\ pos <= Len(paths)
    /\ \E vanish \in BOOLEAN, mark_ok \in BOOLEAN :
          LET path == paths[pos]
              o == enhanced_delete_single_file(path, fs[path], cfg, vanish, mark_ok)
          IN  /\ fs' = [fs EXCEPT ![path] = o.f]
              /\ oplog' = [oplog EXCEPT ![pos] = o.ops]
              /\ found' = [found EXCEPT ![pos] = Some(fs[path])]
              /\ results' = Append(results, o.result)
              /\ counts' = Bump(counts, enhanced_counters(o.result))
    /\ pos' = pos + 1
    /\ UNCHANGED << engine, cfg, paths, phase, wpc, wcheck, wres >>
    /\ UNCHANGED << registry_vars, phys_vars, pure_vars, large_vars, scan_vars, cancel_vars >>

EnhancedDeleteReturn ==
    /\ engine = "enhanced" /\ phase = "running" /\ pos > Len(paths)
    /\ phase' = "returned"
    /\ UNCHANGED << engine, cfg, paths, fs, pos, results, counts, oplog, found, wpc, wcheck,
                    wres >>
    /\ UNCHANGED << registry_vars, phys_vars, pure_vars, large_vars, scan_vars, cancel_vars >>

\* ------------------------------------------------------------------------
\* PermanentDeleteEngine::delete_leftovers: the workers of par_iter, one for
\* each path, and the collect that ends it
\* ------------------------------------------------------------------------
LeftoverCheck(i) ==
    /\ engine = "leftover" /\ phase = "running" /\ wpc[i] = "check"
    /\ \E check \in perform_safety_checks(paths[i], fs[paths[i]]) :
          /\ wcheck' = [wcheck EXCEPT ![i] = Some(check)]
          /\ IF check.kind = "Safe"
             THEN /\ wpc' = [wpc EXCEPT ![i] = "delete"]
                  /\ wres' = wres
             ELSE /\ wpc' = [wpc EXCEPT ![i] = "count"]
                  /\ wres' = [wres EXCEPT ![i] = Some(refused_leftover(paths[i], check))]
    /\ found' = [found EXCEPT ![i] = Some(fs[paths[i]])]
    /\ UNCHANGED << engine, cfg, paths, fs, pos, results, counts, oplog, phase >>
    /\ UNCHANGED << registry_vars, phys_vars, pure_vars, large_vars, scan_vars, cancel_vars >>

LeftoverDelete(i) ==
    /\ engine = "leftover" /\ phase = "running" /\ wpc[i] = "delete"
    /\ \E mark_ok \in BOOLEAN :
          LET path == paths[i]
              o == delete_single_leftover(path, fs[path], mark_ok)
          IN  /\ fs' = [fs EXCEPT ![path] = o.f]
              /\ oplog' = [oplog EXCEPT ![i] = o.ops]
              /\ wres' = [wres EXCEPT ![i] = Some(o.result)]
    /\ wpc' = [wpc EXCEPT ![i] = "count"]
    /\ UNCHANGED << engine, cfg, paths, pos, results, counts, found, phase, wcheck >>
    /\ UNCHANGED << registry_vars, phys_vars, pure_vars, large_vars, scan_vars, cancel_vars >>

\* fetch_add(1) on the counter of the candidate
LeftoverCount(i) ==
    /\ engine = "leftover" /\ phase = "running" /\ wpc[i] = "count"
    /\ counts' = Bump(counts, leftover_counters(Unwrap(wcheck[i]), Unwrap(wres[i])))
    /\ wpc' = [wpc EXCEPT ![i] = "done"]
    /\ UNCHANGED << engine, cfg, paths, fs, pos, results, oplog, found, phase, wcheck, wres >>
    /\ UNCHANGED << registry_vars, phys_vars, pure_vars, large_vars, scan_vars, cancel_vars >>

LeftoverCollect ==
    /\ engine = "leftover" /\ phase = "running"
    /\ \A i \in DOMAIN paths : wpc[i] = "done"
    /\ results' = [i \in DOMAIN paths |-> Unwrap(wres[i])]
    /\ phase' = "returned"
    /\ UNCHANGED << engine, cfg, paths, fs, pos, counts, oplog, found, wpc, wcheck, wres >>
    /\ UNCHANGED << registry_vars, phys_vars, pure_vars, large_vars, scan_vars, cancel_vars >>

DeletionNext ==
    \/ DeletePathsStep
    \/ DeletePathsReturn
    \/ EnhancedDeleteStep
    \/ EnhancedDeleteReturn
    \/ \E i \in DOMAIN paths : LeftoverCheck(i)
    \/ \E i \in DOMAIN paths : LeftoverDelete(i)
    \/ \E i \in DOMAIN paths : LeftoverCount(i)
    \/ LeftoverCollect

Init == DeletionInit

Next == DeletionNext

Spec == Init /\ [][Next]_vars

\* ------------------------------------------------------------------------
\* commands.rs: delete_registry_entries.  The requests are async commands:
\* the steps of two of them interleave.
\* ------------------------------------------------------------------------
\* the selections of at most MaxEntries entries of the scan, in its order
EntryLists ==
    {SelectSeq(ScanOrder, LAMBDA e : e \in chosen) :
        chosen \in {c \in SUBSET RegEntries : Cardinality(c) <= MaxEntries}}

RegistryInit ==
    /\ DeletionIdle /\ PhysIdle /\ PureIdle /\ LargeIdle /\ ScanIdle /\ CancelIdle
    /\ registry = RegEntries \ {E_mui}
    /\ backup_dir \in BOOLEAN
    /\ backups = [t \in Seconds |-> None]
    /\ clock = 0
    /\ \E l1 \in EntryLists, l2 \in EntryLists :
          rq = [r \in {"first", "second"} |->
                   Request(IF r = "first" THEN l1 ELSE l2, registry)]

\* export_backup: fs::create_dir_all(backup_dir)
ExportCreateDir(r) ==
    /\ rq[r].pc = "mkdir"
    /\ \/ /\ backup_dir' = TRUE
          /\ rq' = [rq EXCEPT ![r].pc = "create"]
       \/ /\ ~backup_dir
          /\ backup_dir' = backup_dir
          /\ rq' = [rq EXCEPT ![r] = after_export_error(@, "chuangjian beifen mulu shibai")]
    /\ UNCHANGED << registry, backups, clock >>
    /\ UNCHANGED << deletion_vars, phys_vars, pure_vars, large_vars, scan_vars, cancel_vars >>

\* export_backup: the file name is made of the second read now, and
\* File::create makes the file or empties the one that is there
ExportCreateFile(r) ==
    /\ rq[r].pc = "create"
    /\ \/ /\ backups' = [backups EXCEPT ![clock] = Some(EmptyFile)]
          /\ rq' = [rq EXCEPT ![r].pc = "header", ![r].file = Some(clock)]
       \/ /\ backups' = backups
          /\ rq' = [rq EXCEPT ![r] = after_export_error(@, "chuangjian beifen wenjian shibai")]
    /\ UNCHANGED << registry, backup_dir, clock >>
    /\ UNCHANGED << deletion_vars, phys_vars, pure_vars, large_vars, scan_vars, cancel_vars >>

\* export_backup: the six lines of the header
ExportHeader(r) ==
    /\ rq[r].pc = "header"
    /\ \/ /\ backups' = [backups EXCEPT ![Unwrap(rq[r].file)] =
                             Some([Unwrap(@) EXCEPT !.header = TRUE])]
          /\ rq' = [rq EXCEPT ![r].pc = "entry", ![r].k = 1]
       \/ /\ backups' = backups
          /\ rq' = [rq EXCEPT ![r] = after_export_error(@, "xieru beifen wenjian shibai")]
    /\ UNCHANGED << registry, backup_dir, clock >>
    /\ UNCHANGED << deletion_vars, phys_vars, pure_vars, large_vars, scan_vars, cancel_vars >>

\* export_backup: the section of one entry
ExportEntry(r) ==
    /\ rq[r].pc = "entry" /\ rq[r].k <= Len(rq[r].entries)
    /\ \/ /\ backups' = [backups EXCEPT ![Unwrap(rq[r].file)] =
                             Some([Unwrap(@) EXCEPT !.sections =
                                      Append(@, rq[r].entries[rq[r].k].path)])]
          /\ rq' = [rq EXCEPT ![r].k = @ + 1]
       \/ /\ backups' = backups
          /\ rq' = [rq EXCEPT ![r] = after_export_error(@, "xieru beifen wenjian shibai")]
    /\ UNCHANGED << registry, backup_dir, clock >>
    /\ UNCHANGED << deletion_vars, phys_vars, pure_vars, large_vars, scan_vars, cancel_vars >>

\* export_backup returns Ok(backup_file); the removals are spawned
ExportReturn(r) ==
    /\ rq[r].pc = "entry" /\ rq[r].k > Len(rq[r].entries)
    /\ rq' = [rq EXCEPT ![r].pc = "delete", ![r].k = 1, ![r].exported = TRUE]
    /\ UNCHANGED << registry, backup_dir, backups, clock >>
    /\ UNCHANGED << deletion_vars, phys_vars, pure_vars, large_vars, scan_vars, cancel_vars >>

\* one pass of the loop over the entries: delete_registry_entry(&entry)
DeleteEntry(r) ==
    /\ rq[r].pc = "delete" /\ rq[r].k <= Len(rq[r].entries)
    /\ \E access_ok \in BOOLEAN :
          LET entry == rq[r].entries[rq[r].k]
              d == delete_registry_entry(entry, registry, access_ok)
          IN  /\ registry' = d.registry
              /\ rq' = [rq EXCEPT
                          ![r].k = @ + 1,
                          ![r].calls = Append(@, entry),
                          ![r].deleted_count = IF d.ok THEN @ + 1 ELSE @,
                          ![r].failed_entries = IF d.ok THEN @ ELSE Append(@, entry.path),
                          ![r].errors = IF d.ok THEN @ ELSE Append(@, d.e)]
    /\ UNCHANGED << backup_dir, backups, clock >>
    /\ UNCHANGED << deletion_vars, phys_vars, pure_vars, large_vars, scan_vars, cancel_vars >>

\* Ok(RegistryDeleteResult)
DeleteReturn(r) ==
    /\ rq[r].pc = "delete" /\ rq[r].k > Len(rq[r].entries)
    /\ rq' = [rq EXCEPT
                ![r].pc = "returned",
                ![r].result = Some([ok |-> TRUE, backup_path |-> Unwrap(rq[r].file),
                                    deleted_count |-> rq[r].deleted_count,
                                    failed_entries |-> rq[r].failed_entries,
                                    errors |-> rq[r].errors])]
    /\ UNCHANGED << registry, backup_dir, backups, clock >>
    /\ UNCHANGED << deletion_vars, phys_vars, pure_vars, large_vars, scan_vars, cancel_vars >>

\* a second passes
Tick ==
    /\ clock + 1 \in Seconds
    /\ clock' = clock + 1
    /\ UNCHANGED << registry, backup_dir, backups, rq >>
    /\ UNCHANGED << deletion_vars, phys_vars, pure_vars, large_vars, scan_vars, cancel_vars >>

RegistryNext ==
    \/ \E r \in DOMAIN rq : ExportCreateDir(r)
    \/ \E r \in DOMAIN rq : ExportCreateFile(r)
    \/ \E r \in DOMAIN rq : ExportHeader(r)
    \/ \E r \in DOMAIN rq : ExportEntry(r)
    \/ \E r \in DOMAIN rq : ExportReturn(r)
    \/ \E r \in DOMAIN rq : DeleteEntry(r)
    \/ \E r \in DOMAIN rq : DeleteReturn(r)
    \/ Tick

SpecRegistry == RegistryInit /\ [][RegistryNext]_vars

\* ------------------------------------------------------------------------
\* cleaner/enhanced_delete.rs: one call of calculate_physical_size
\* ------------------------------------------------------------------------
PhysInit ==
    /\ DeletionIdle /\ RegistryIdle /\ PureIdle /\ LargeIdle /\ ScanIdle /\ CancelIdle
    /\ logical_size \in LogicalSizes
    /\ cluster_size \in ClusterSizes
    /\ overflow_checks \in BOOLEAN
    /\ physical_size = None

CalculatePhysicalSize ==
    /\ physical_size = None
    /\ physical_size' = Some(calculate_physical_size(logical_size, cluster_size, overflow_checks))
    /\ UNCHANGED << logical_size, cluster_size, overflow_checks >>
    /\ UNCHANGED << deletion_vars, registry_vars, pure_vars, large_vars, scan_vars, cancel_vars >>

PhysNext == CalculatePhysicalSize

SpecPhys == PhysInit /\ [][PhysNext]_vars

\* ------------------------------------------------------------------------
\* Properties of the three deletion engines
\* ------------------------------------------------------------------------
\* a call that acts on the file system (a line of the log does not)
HandsOn(ops) ==
    \E k \in DOMAIN ops : ops[k].op \in {"remove", "attr", "own", "mark", "mark_refused"}

Calls(ops, names) == \E k \in DOMAIN ops : ops[k].op \in names

\* the candidate of index i was met as an existing entry
MetExisting(i) == found[i] # None /\ Unwrap(found[i]).exists

\* the outcome of a sequential engine that tells a refusal of the gate
IsSystemProtected(r) ==
    IF engine = "delete"
    THEN ~r.ok /\ r.reason = "xitong baohu lujing, jinzhi shanchu"
    ELSE ~r.success /\ r.failure_reason = Some("SystemProtected")

\* C1: in DeleteEngine::delete_paths and in EnhancedDeleteEngine::delete_files
\* alike, an existing path that trips one of the five layers of the gate
\* (prefix, file name, extension under \windows\, user-critical root, drive
\* root) is never handed to a removal, attribute, ownership or reboot-mark
\* call, and its outcome is SystemProtected.
C1_GateNeverBypassed ==
    engine \in {"delete", "enhanced"} =>
        \A i \in DOMAIN results :
            (MetExisting(i) /\ paths[i] \in ProtectedByDeleteGate) =>
                /\ ~HandsOn(oplog[i])
                /\ IsSystemProtected(results[i])

\* the nine layers of the claim C2: the five of the gate of DeleteEngine, the
\* four protected-path tests and registry / executable tests of the leftover gate
NoGeneralLayer(path) == path \notin ProtectedByDeleteGate

\* the executable files of a directory within max_depth, in walk order
ExeEntries == [p \in LeftoverPaths |->
                  SelectSeq(dir_entries(p),
                            LAMBDA e : /\ e.is_file
                                       /\ e.depth <= max_depth
                                       /\ \E x \in DOMAIN EXECUTABLE_EXTENSIONS :
                                             EndsWith(to_lowercase(e.name),
                                                      "." \o EXECUTABLE_EXTENSIONS[x]))]

NoLeftoverLayer(path, f) ==
    /\ RegistryMatches[path] = {}
    /\ ~(f.exists /\ ExeEntries[path] # << >>)

\* C2: perform_safety_checks answers Safe exactly when none of the nine layers
\* triggers; a path one of the five general layers rejects is never Safe.
C2_SafeIffNoLayer ==
    engine = "leftover" =>
        \A i \in DOMAIN paths :
            wcheck[i] # None =>
                /\ (Unwrap(wcheck[i]).kind = "Safe") <=>
                       (NoGeneralLayer(paths[i]) /\ NoLeftoverLayer(paths[i], Unwrap(found[i])))
                /\ paths[i] \in ProtectedByDeleteGate => Unwrap(wcheck[i]).kind # "Safe"

\* the candidates of delete_leftovers that pass the protected-path and the
\* registry layers and hold an executable file within max_depth
HoldsExecutables(i) ==
    /\ engine = "leftover"
    /\ ProtectedPathReason[paths[i]] = None
    /\ RegistryMatches[paths[i]] = {}
    /\ MetExisting(i)
    /\ ExeEntries[paths[i]] # << >>

FirstNames(entries, n) ==
    [k \in 1..(IF Len(entries) < n THEN Len(entries) ELSE n) |-> entries[k].name]

\* C4: a candidate of delete_leftovers that passes the first two layers and
\* holds an executable within depth 5 is neither removed nor marked; its
\* result has success = false, needs_manual_review = true, and the verdict
\* ContainsExecutables with the (at most 10) names found; it adds one to
\* manual_review_count and nothing to failed_count.
C4_ExecutablesNeedReview ==
    /\ \A i \in DOMAIN paths :
          (HoldsExecutables(i) /\ wres[i] # None) =>
              LET r == Unwrap(wres[i])
              IN  /\ oplog[i] = << >>
                  /\ fs[paths[i]] = Unwrap(found[i])
                  /\ ~r.success /\ r.needs_manual_review /\ ~r.marked_for_reboot
                  /\ r.safety_check =
                        ContainsExecutables(FirstNames(ExeEntries[paths[i]], max_results))
                  /\ Len(r.safety_check.files) <= 10
                  /\ wcheck[i] = Some(r.safety_check)
    /\ (engine = "leftover" /\ phase = "returned") =>
          /\ counts.manual_review = Cardinality({i \in DOMAIN paths : HoldsExecutables(i)})
          /\ counts.failed =
                Cardinality({i \in DOMAIN paths :
                                /\ ~HoldsExecutables(i)
                                /\ ~results[i].success /\ ~results[i].marked_for_reboot})

\* a candidate with more than max_results executables was refused, another one
\* was removed, and the call has returned
C4_Witness ==
    /\ engine = "leftover" /\ phase = "returned"
    /\ \E i \in DOMAIN paths :
          /\ HoldsExecutables(i)
          /\ Len(ExeEntries[paths[i]]) > max_results
          /\ results[i].needs_manual_review
    /\ counts.manual_review = 1 /\ counts.success = 1

\* C5: the take-ownership tier is run only on a path whose lowercased form
\* contains one of the SAFE_OWNERSHIP_PATHS, only when it is enabled, and only
\* after the direct and the attribute tier failed.
C5_OwnershipOnlyInSafePaths ==
    engine = "enhanced" =>
        \A i \in DOMAIN results :
            LET t == results[i].tiers
            IN  /\ Calls(oplog[i], {"own"}) =>
                      /\ is_safe_for_ownership(paths[i])
                      /\ cfg.enable_take_ownership
                      /\ Len(t) = 3 /\ t[3].tier = "ownership"
                      /\ ~t[1].ok /\ ~t[2].ok
                /\ (\E k \in DOMAIN t : t[k].tier = "ownership") => Calls(oplog[i], {"own"})

\* ownership was taken of a path in a safe directory, and a path outside of
\* them was left with its owner although every tier failed on it
C5_Witness ==
    /\ engine = "enhanced" /\ Len(results) = 2
    /\ \E i, j \in DOMAIN results :
          /\ Calls(oplog[i], {"own"}) /\ results[i].success
          /\ paths[j] \notin SafeForOwnership
          /\ Unwrap(found[j]) = Denied
          /\ ~results[j].success /\ ~Calls(oplog[j], {"own"})

\* C7: every candidate adds one to exactly one of success, failed,
\* reboot_pending and manual_review: while the call runs the counters sum to
\* the number of candidates counted, and at the return to the number of paths
\* given, which is the number of results.
C7_CountersPartition ==
    /\ engine = "enhanced" =>
          /\ Total(counts) = Len(results)
          /\ phase = "returned" => Len(results) = Len(paths)
    /\ engine = "leftover" =>
          /\ Total(counts) = Cardinality({i \in DOMAIN paths : wpc[i] = "done"})
          /\ phase = "returned" => (Total(counts) = Len(paths) /\ Len(results) = Len(paths))

\* delete_leftovers has returned for MaxPaths paths, one marked for reboot and
\* one refused for its executables
C7_Witness ==
    /\ engine = "leftover" /\ phase = "returned" /\ Len(paths) = MaxPaths
    /\ counts.reboot_pending = 1 /\ counts.manual_review = 1

\* the outcomes of the candidates of the enhanced and of the leftover engine
CandidateOutcomes ==
    IF engine = "enhanced" THEN {results[i] : i \in DOMAIN results}
    ELSE IF engine = "leftover"
    THEN {Unwrap(wres[i]) : i \in {k \in DOMAIN paths : wres[k] # None}}
         \cup {results[i] : i \in DOMAIN results}
    ELSE {}

MarkedReason == IF engine = "enhanced" THEN Some("MarkedForReboot")
                ELSE Some("yi biaoji wei chongqi hou shanchu")

\* C8: in every per-candidate result, success = true implies no failure
\* reason and marked_for_reboot = false; marked_for_reboot = true implies
\* success = false and the failure reason that tells the mark.
C8_ResultConsistent ==
    \A r \in CandidateOutcomes :
        /\ r.success => (r.failure_reason = None /\ ~r.marked_for_reboot)
        /\ r.marked_for_reboot => (~r.success /\ r.failure_reason = MarkedReason)

\* the enhanced engine removed one file and marked another one
C8_Witness ==
    /\ engine = "enhanced"
    /\ \E r1, r2 \in CandidateOutcomes : r1.success /\ r2.marked_for_reboot

AllTiersFailed(r) == r.tiers # << >> /\ \A k \in DOMAIN r.tiers : ~r.tiers[k].ok

\* C9: with the default settings of the enhanced engine, when every tier
\* fails on a path that still exists: in a safe-ownership directory, if the
\* system accepts the reboot mark, the outcome is MarkedForReboot with
\* marked_for_reboot = true and success = false; outside of them neither the
\* ownership nor the mark is tried and the outcome is FileLocked.
C9_LockedOutcome ==
    (engine = "enhanced" /\ cfg = DefaultConfig) =>
        \A i \in DOMAIN results :
            LET r == results[i]
            IN  (AllTiersFailed(r) /\ fs[paths[i]].exists) =>
                    IF is_safe_for_ownership(paths[i])
                    THEN Calls(oplog[i], {"mark"}) =>
                            /\ r.failure_reason = Some("MarkedForReboot")
                            /\ r.marked_for_reboot /\ ~r.success
                    ELSE /\ ~Calls(oplog[i], {"own", "mark", "mark_refused"})
                         /\ r.failure_reason = Some("FileLocked")
                         /\ ~r.marked_for_reboot /\ ~r.success

\* a locked file of a safe directory was marked and a locked file outside of
\* them was reported FileLocked, in one call
C9_Witness ==
    /\ engine = "enhanced" /\ cfg = DefaultConfig
    /\ \E i, j \in DOMAIN results :
          /\ Unwrap(found[i]) = Locked /\ paths[i] \in SafeForOwnership
          /\ results[i].marked_for_reboot
          /\ Unwrap(found[j]) = Locked /\ paths[j] \notin SafeForOwnership
          /\ results[j].failure_reason = Some("FileLocked")

\* the candidates of DeleteEngine met existing, not protected, out of scope
PassesGateOutOfScope(i) ==
    /\ engine = "delete"
    /\ MetExisting(i)
    /\ paths[i] \notin ProtectedByDeleteGate
    /\ paths[i] \notin InAllowedScope

\* C10 as stated: DeleteEngine does not remove an existing path that passes
\* the protected-path layers but lies outside the allowed scope, and gives
\* it an OutOfScope outcome.
C10_OutOfScopeRefused ==
    \A i \in DOMAIN results :
        PassesGateOutOfScope(i) =>
            /\ ~HandsOn(oplog[i])
            /\ ~results[i].ok
            /\ results[i].reason = "OutOfScope"

\* C10 as the code has it: for such a path the scope test only writes a
\* warning; the removal is tried as for a path in scope, the outcome is the
\* one of that removal and is never OutOfScope.
C10_OutOfScopeOnlyWarned ==
    \A i \in DOMAIN results :
        PassesGateOutOfScope(i) =>
            LET f == Unwrap(found[i])
                r == IF is_dir(paths[i]) THEN delete_directory(paths[i], f)
                     ELSE delete_file(paths[i], f)
            IN  /\ oplog[i] = << Op(paths[i], "warn") >> \o r.ops
                /\ Calls(oplog[i], {"remove"})
                /\ results[i].ok = r.ok /\ results[i].reason = r.reason
                /\ results[i].reason # "OutOfScope"
                /\ (f = Plain => (results[i].ok /\ ~fs[paths[i]].exists))

\* a path out of scope was removed
C10_Witness ==
    \E i \in DOMAIN results :
        /\ PassesGateOutOfScope(i)
        /\ Unwrap(found[i]) = Plain
        /\ results[i].ok /\ ~fs[paths[i]].exists

\* ------------------------------------------------------------------------
\* Properties of delete_registry_entries
\* ------------------------------------------------------------------------
BackupFailed(r) == rq[r].pc = "returned" /\ ~rq[r].exported

\* C3: no request hands an entry to delete_registry_entry before its
\* export_backup has returned Ok; a request whose backup directory or file
\* could not be made or written returns an error, has called
\* delete_registry_entry for nothing and has deleted nothing, and when no
\* request got its backup the registry is as it was.
C3_BackupBeforeDelete ==
    /\ \A r \in DOMAIN rq :
          /\ rq[r].calls # << >> =>
                (rq[r].exported /\ rq[r].file # None /\ backups[Unwrap(rq[r].file)] # None)
          /\ BackupFailed(r) =>
                /\ rq[r].result # None /\ ~Unwrap(rq[r].result).ok
                /\ rq[r].calls = << >>
                /\ rq[r].deleted_count = 0
    /\ (\A r \in DOMAIN rq : ~rq[r].exported) =>
          \A r \in DOMAIN rq : registry = rq[r].registry_at_call

\* one request returned the error of its backup, for a list with an entry
\* of the registry, while the other one deleted an entry after its backup
C3_Witness ==
    \E r1, r2 \in DOMAIN rq :
        /\ BackupFailed(r1) /\ rq[r1].entries # << >>
        /\ \E k \in DOMAIN rq[r1].entries : rq[r1].entries[k] \in rq[r1].registry_at_call
        /\ rq[r2].exported /\ rq[r2].deleted_count > 0

\* ------------------------------------------------------------------------
\* Properties of calculate_physical_size
\* ------------------------------------------------------------------------
\* C6: for every 64-bit logical size L and every cluster size c of 512, 4096
\* and 65536, calculate_physical_size returns ceil(L / c) * c without
\* wrap-around: a value, at least L, a multiple of c, less than c above L
\* (so that 0 gives 0, c gives c and c + 1 gives 2c).
C6_PhysicalSizeRoundsUp ==
    physical_size # None =>
        LET o == Unwrap(physical_size)
        IN  /\ ~o.panic
            /\ Leq64(logical_size, o.value)
            /\ Div64(o.value, cluster_size).rem = 0
            /\ Leq64(Sub64(o.value, logical_size).value, U64(cluster_size - 1))

\* ------------------------------------------------------------------------
\* scanner/categories.rs and scanner/scan_engine.rs: the file name patterns
\* ------------------------------------------------------------------------
get_file_patterns ==
    [ WindowsTemp            |-> << "*" >>,
      SystemCache            |-> << "*.pf" >>,
      BrowserCache           |-> << "*" >>,
      RecycleBin             |-> << "*" >>,
      WindowsUpdate          |-> << "*" >>,
      ThumbnailCache         |-> << "thumbcache_*.db", "iconcache_*.db" >>,
      LogFiles               |-> << "*.log", "*.etl", "*.evtx" >>,
      MemoryDump             |-> << "*.dmp", "MEMORY.DMP" >>,
      OldWindowsInstallation |-> << "*" >>,
      AppCache               |-> << "*" >>,
      FontCache              |-> << "*" >>,
      WindowsErrorReports    |-> << "*" >>,
      InstallerTemp          |-> << "*" >>,
      ClipboardCache         |-> << "*" >> ]

\* ScanEngine::matches_glob: only the pattern is lowercased, the name is
\* compared as it is given
matches_glob(name, pattern_in) ==
    LET pattern == to_lowercase(pattern_in)
    IN  IF pattern = "*" THEN TRUE
        ELSE IF StartsWith(pattern, "*") /\ EndsWith(pattern, "*")
        THEN Contains(name, SubSeq(pattern, 2, Len(pattern) - 1))
        ELSE IF StartsWith(pattern, "*")
        THEN EndsWith(name, SubSeq(pattern, 2, Len(pattern)))
        ELSE IF EndsWith(pattern, "*")
        THEN StartsWith(name, SubSeq(pattern, 1, Len(pattern) - 1))
        ELSE name = pattern

\* ScanEngine::matches_patterns: the file name of the path is lowercased
\* before it is given to matches_glob
matches_patterns(path, patterns) ==
    IF InList(patterns, "*") THEN TRUE
    ELSE IF file_name(path) = None THEN FALSE
    ELSE LET name == to_lowercase(Unwrap(file_name(path)))
         IN  \E i \in DOMAIN patterns : matches_glob(name, patterns[i])

\* the names and the patterns of the calls
GlobNames ==
    { "test.log", "test.LOG", "test.txt", "thumbcache_256.db", "iconcache_32.db",
      "thumbcache_*.db", "thumbcache_.db", "thumbcache_256.dbx", "MEMORY.DMP",
      "memory.dmp", "setup.etl", "app.pf", "log", "" }

GlobPatterns ==
    { "*", "**", "*.log", "*.LOG", "*.etl", "*.evtx", "*.dmp", "*.pf", "MEMORY.DMP",
      "thumbcache_*.db", "iconcache_*.db", "*cache*", "thumb*", "test.log" }

ScannedFiles ==
    { "C:\\Users\\alice\\AppData\\Local\\Microsoft\\Windows\\Explorer\\thumbcache_256.db",
      "C:\\Users\\alice\\AppData\\Local\\Microsoft\\Windows\\Explorer\\iconcache_32.db",
      "C:\\Users\\alice\\AppData\\Local\\Microsoft\\Windows\\Explorer\\ThumbCache_IDX.DB",
      "C:\\Windows\\Logs\\CBS\\CBS.LOG", "C:\\Windows\\MEMORY.DMP",
      "C:\\Windows\\Prefetch\\CALC.EXE-1234.pf", "C:\\Windows\\Temp\\notes.txt" }

Call(fn, arg) == [fn |-> fn, arg |-> arg]

GlobCalls == {Call("matches_glob", << n, p >>) : n \in GlobNames, p \in GlobPatterns}

PatternCalls ==
    {Call("matches_patterns", << f, c >>) : f \in ScannedFiles, c \in DOMAIN get_file_patterns}

\* ------------------------------------------------------------------------
\* cleaner/delete_engine.rs: calls of the delete gate on its own
\* ------------------------------------------------------------------------
\* the layer whose warning is_protected_path logs: the first that rejects
rejecting_layer(path) ==
    IF ProtectedPrefixLayer(path) THEN "ProtectedPrefix"
    ELSE IF ProtectedFileLayer(path) THEN "ProtectedFile"
    ELSE IF ProtectedExtensionLayer(path) THEN "ProtectedExtension"
    ELSE IF UserCriticalRootLayer(path) THEN "UserCriticalRoot"
    ELSE IF DriveRootLayer(path) THEN "DriveRoot"
    ELSE "none"

\* the root of the recycle bin and what the Recycle-Bin scan emits below it
RecycleBinPaths ==
    { "C:\\$Recycle.Bin", "C:\\$Recycle.Bin\\S-1-5-21",
      "C:\\$Recycle.Bin\\S-1-5-21\\$R1.txt", "c:\\$RECYCLE.BIN\\S-1-5-18\\$IABC.tmp",
      "D:\\$Recycle.Bin\\S-1-5-21\\$R2.txt" }

GatePaths ==
    Paths \cup
    { "C:\\Users\\alice\\AppData\\Local", "c:\\users\\alice\\appdata\\roaming",
      "C:\\Users\\alice\\Documents", "D:\\Backup\\DOWNLOADS", "C:\\Users\\alice\\Downloads",
      "C:\\Users\\alice\\Documents\\notes.txt", "C:\\Users\\alice\\Downloads\\setup.tmp",
      "C:\\Users\\alice\\AppData\\Local\\Temp\\x.tmp",
      "C:\\Users\\alice\\AppData\\Roaming\\app\\old.bak",
      "C:\\Users\\alice\\Desktop\\Old\\Downloads", "D:\\desktops\\a.txt",
      "D:\\my_desktop", "D:\\x\\Desktop.old" }
    \cup RecycleBinPaths

GateCalls == {Call("is_protected_path", << p >>) : p \in GatePaths}

ScopeCalls == {Call("is_in_allowed_scope", << p >>) : p \in GatePaths}

\* ------------------------------------------------------------------------
\* cleaner/permanent_delete.rs: calls of check_protected_path on its own.
\* The command takes the paths as strings from its caller, so a directory
\* may come in any spelling Windows accepts for it.
\* ------------------------------------------------------------------------
LeftoverGatePaths ==
    LeftoverPaths \cup
    { "C:\\Windows", "C:\\Windows\\System32", "c:\\windows\\system32\\drivers",
      "C:\\WINDOWS\\Temp\\x", "C:\\Users\\test\\Desktop", "C:\\Users\\test\\Documents",
      "C:\\Users\\test\\Documents\\a.txt", "C:\\Users\\test\\Downloads\\setup",
      "C:\\Users\\test\\Pictures", "C:\\Users\\test\\Videos\\clip",
      "C:\\Users\\test\\Music", "C:\\Program Files", "C:\\Program Files\\App",
      "C:\\Program Files (x86)\\App", "C:\\ProgramData\\Microsoft",
      "C:\\ProgramData\\Microsoft\\Windows", "C:\\Boot", "C:\\Recovery",
      "C:\\$Recycle.Bin", "C:\\$Recycle.Bin\\S-1-5-21", "C:\\", "D:\\", "E:", "c:\\",
      "C:\\Users\\alice", "C:\\Users\\Public", "c:\\users\\bob",
      "C:\\Users\\alice\\", "C:/Users/alice", "C:/Windows/System32",
      "C:/Users/test/Documents", "C:\\Users\\test\\AppData\\Roaming\\Tool",
      "D:\\Apps\\OldTool" }

LeftoverGateCalls == {Call("check_protected_path", << p >>) : p \in LeftoverGatePaths}

\* ------------------------------------------------------------------------
\* scanner/leftovers.rs and scanner/registry.rs: the installed-program
\* lookups of the two scanners (the one of the leftover delete engine is
\* check_registry_presence)
\* ------------------------------------------------------------------------
\* LeftoverScanner::is_installed
leftover_is_installed(folder_name, installed_apps) ==
    LET name_lower == to_lowercase(folder_name)
    IN  \/ name_lower \in installed_apps
        \/ \E app \in installed_apps :
              \/ Len(app) > 3 /\ Contains(name_lower, app)
              \/ Len(name_lower) > 3 /\ Contains(app, name_lower)

\* RegistryScanner::is_installed
registry_is_installed(key_name, installed_apps) ==
    LET name_lower == to_lowercase(key_name)
    IN  \/ name_lower \in installed_apps
        \/ \E app \in installed_apps : Len(app) > 3 /\ Contains(name_lower, app)

\* the names asked about, and the indexes they are looked up in
Tokens ==
    { "Git", "git", "Visual Studio", "Visual Studio Code", "Visual Studio Code Insiders",
      "7-Zip", "7-zi", "zip", "vs", "GitKraken", "SomeApp", "Igor", "code", "" }

Indexes == { installed_apps_cache, { "git", "vlc media player", "kraken" }, {} }

InstalledCalls ==
    {Call("check_registry_presence", << t >>) : t \in Tokens}
    \cup {Call(fn, << t, apps >>) : fn \in {"leftover_is_installed", "registry_is_installed"},
                                   t \in Tokens, apps \in Indexes}

\* ------------------------------------------------------------------------
\* scanner/registry.rs: RegistryScanner::scan
\* ------------------------------------------------------------------------
REGISTRY_WHITELIST ==
    << "microsoft", "windows", "classes", "policies", "explorer", "shell",
       "currentversion", "nvidia", "amd", "intel", "realtek", "hardware", "device",
       "driver", "services", "system", "security", "sam", "software\\classes",
       "google", "chrome", "mozilla", "firefox", "adobe", "java", "python", "node",
       "git", "vscode", "visual studio", "jetbrains" >>

mui_paths ==
    << "Software\\Microsoft\\Windows\\CurrentVersion\\Explorer\\MuiCache",
       "Software\\Classes\\Local Settings\\Software\\Microsoft\\Windows\\Shell\\MuiCache" >>

\* str::find: the index of the first occurrence of p in s, 0 when there is none
Find(s, p) ==
    LET idx == {i \in 1..(Len(s) - Len(p) + 1) : SubSeq(s, i, i + Len(p) - 1) = p}
    IN  IF idx = {} THEN 0 ELSE CHOOSE i \in idx : \A j \in idx : i <= j

RECURSIVE TrimStart(_, _)
TrimStart(s, c) ==
    IF Len(s) > 0 /\ CharAt(s, 1) = c THEN TrimStart(SubSeq(s, 2, Len(s)), c) ELSE s

RECURSIVE TrimEnd(_, _)
TrimEnd(s, c) ==
    IF Len(s) > 0 /\ CharAt(s, Len(s)) = c THEN TrimEnd(SubSeq(s, 1, Len(s) - 1), c) ELSE s

\* a path that starts with a drive letter and a colon
HasDrive(path) == Len(path) > 2 /\ CharAt(path, 2) = ":"

extract_exe_path_from_mui(name_in) ==
    LET name == TrimStart(name_in, "@")
        exe_pos == Find(to_lowercase(name), ".exe")
        dll_pos == Find(to_lowercase(name), ".dll")
    IN  IF exe_pos > 0 /\ HasDrive(SubSeq(name, 1, exe_pos + 3))
        THEN Some(SubSeq(name, 1, exe_pos + 3))
        ELSE IF dll_pos > 0 /\ HasDrive(SubSeq(name, 1, dll_pos + 3))
        THEN Some(SubSeq(name, 1, dll_pos + 3))
        ELSE None

extract_exe_from_command(command_in) ==
    LET command == TrimEnd(TrimStart(command_in, " "), " ")
        rest == SubSeq(command, 2, Len(command))
        end_quote == Find(rest, "\"")
        space == Find(command, " ")
        first == IF space = 0 THEN command ELSE SubSeq(command, 1, space - 1)
        path == TrimEnd(TrimStart(first, "\""), "\"")
    IN  IF StartsWith(command, "\"") /\ end_quote > 0
        THEN Some(SubSeq(rest, 1, end_quote - 1))
        ELSE IF command # "" /\ HasDrive(path) THEN Some(path)
        ELSE None

is_key_whitelisted(key_name) ==
    \E i \in DOMAIN REGISTRY_WHITELIST : Contains(to_lowercase(key_name), REGISTRY_WHITELIST[i])

\* an entry of the scan: a RegistryEntry with the file it points to
ScanEntry(path, name, entry_type, associated_path) ==
    [path |-> path, name |-> name, entry_type |-> entry_type,
     associated_path |-> associated_path]

\* the elements of a sequence that satisfy keep, each one mapped by make
Collect(seq, keep(_), make(_)) ==
    LET kept == SelectSeq(seq, keep)
    IN  [i \in DOMAIN kept |-> make(kept[i])]

\* hive.mui[k]: the value names of the k-th MUI cache key;
\* hive.existing: the files that exist
scan_mui_cache(hive) ==
    LET area(k) ==
            Collect(hive.mui[k],
                    LAMBDA name : /\ extract_exe_path_from_mui(name) # None
                                  /\ Unwrap(extract_exe_path_from_mui(name)) \notin hive.existing,
                    LAMBDA name : ScanEntry("HKEY_CURRENT_USER\\" \o mui_paths[k], name, "MuiCache",
                                            extract_exe_path_from_mui(name)))
    IN  area(1) \o area(2)

\* hive.software: the subkeys of HKCU\Software, each with whether it holds a
\* subkey or a value
scan_software_keys(hive, installed_apps) ==
    Collect(hive.software,
            LAMBDA k : /\ ~is_key_whitelisted(k.name)
                       /\ ~registry_is_installed(k.name, installed_apps)
                       /\ k.has_content,
            LAMBDA k : ScanEntry("HKEY_CURRENT_USER\\Software\\" \o k.name, k.name,
                                 "SoftwareKey", None))

\* scan_applications without the test of the whitelist
scan_applications_unfiltered(hive) ==
    Collect(hive.applications,
            LAMBDA a : /\ a.command # None
                       /\ extract_exe_from_command(Unwrap(a.command)) # None
                       /\ Unwrap(extract_exe_from_command(Unwrap(a.command))) \notin hive.existing,
            LAMBDA a : ScanEntry("HKEY_CLASSES_ROOT\\Applications\\" \o a.name, a.name,
                                 "ApplicationAssociation",
                                 extract_exe_from_command(Unwrap(a.command))))

\* hive.applications: the subkeys of HKCR\Applications, each with the default
\* value of its shell\open\command key, None when there is none
scan_applications(hive) ==
    Collect(hive.applications,
            LAMBDA a : /\ ~is_key_whitelisted(a.name)
                       /\ a.command # None
                       /\ extract_exe_from_command(Unwrap(a.command)) # None
                       /\ Unwrap(extract_exe_from_command(Unwrap(a.command))) \notin hive.existing,
            LAMBDA a : ScanEntry("HKEY_CLASSES_ROOT\\Applications\\" \o a.name, a.name,
                                 "ApplicationAssociation",
                                 extract_exe_from_command(Unwrap(a.command))))

registry_scan(hive, installed_apps) ==
    scan_mui_cache(hive) \o scan_software_keys(hive, installed_apps) \o scan_applications(hive)

\* the registries of the model
MuiValues ==
    { << >>,
      << "C:\\Gone\\gone.exe.FriendlyAppName", "C:\\Tools\\here.exe.FriendlyAppName",
         "@C:\\Gone\\res.dll,-100", "LangID" >> }

SoftwareKeys ==
    { << >>,
      << [name |-> "OldApp", has_content |-> TRUE], [name |-> "Microsoft", has_content |-> TRUE],
         [name |-> "EmptyApp", has_content |-> FALSE], [name |-> "GitExtensions", has_content |-> TRUE],
         [name |-> "VLC Media Player", has_content |-> TRUE],
         [name |-> "Samsung Magician", has_content |-> TRUE] >> }

ApplicationKeys ==
    { << >>,
      << [name |-> "oldtool.exe", command |-> Some("\"C:\\Gone\\oldtool.exe\" \"%1\"")],
         [name |-> "chrome.exe", command |-> Some("\"C:\\Gone\\chrome.exe\" -- \"%1\"")],
         [name |-> "here.exe", command |-> Some("C:\\Tools\\here.exe %1")],
         [name |-> "bare.exe", command |-> Some("C:\\Gone\\bare.exe %1")],
         [name |-> "nocmd.exe", command |-> None] >> }

Hives ==
    { [mui |-> << m1, m2 >>, software |-> s, applications |-> a,
       existing |-> {"C:\\Tools\\here.exe"}] :
         m1 \in MuiValues, m2 \in MuiValues, s \in SoftwareKeys, a \in ApplicationKeys }

RegistryScanCalls == {Call("registry_scan", << h, apps >>) : h \in Hives, apps \in Indexes}

\* ------------------------------------------------------------------------
\* scanner/leftovers.rs: LeftoverScanner::scan
\* ------------------------------------------------------------------------
WHITELIST_FOLDERS ==
    << "microsoft", "windows", "packages", "windowsapps",
       "connecteddevicesplatform", "comms", "d3dscache", "diagnostics",
       "publishers", "temp", "temporary internet files", "nvidia",
       "nvidia corporation", "amd", "intel", "realtek", "asus", "msi", "gigabyte",
       "logitech", "razer", "corsair", "steelseries", ".net", "dotnet", "java",
       "python", "node", "nodejs", "npm", "yarn", "rust", "cargo", "go", "golang",
       "vscode", "visual studio", "jetbrains", "git", "github", "docker", "wsl",
       "application data", "local settings", "history", "cookies", "cache",
       "caches", "logs", "crash reports", "crashdumps", "google", "chrome", "edge",
       "firefox", "mozilla", "opera", "brave", "vivaldi", "wechat", "tencent", "qq",
       "discord", "slack", "zoom", "teams", "skype", "telegram", "whatsapp",
       "steam", "epic games", "ubisoft", "origin", "ea", "blizzard", "battle.net",
       "riot games", "adobe", "autodesk", "office", "onedrive", "dropbox", "icloud",
       "spotify", "vlc", "potplayer", "7-zip", "winrar", "bandizip" >>

min_size_threshold == 1024 * 1024

min_days_old == 30

is_whitelisted(folder_name) ==
    LET name_lower == to_lowercase(folder_name)
    IN  \/ \E i \in DOMAIN WHITELIST_FOLDERS : WHITELIST_FOLDERS[i] = name_lower
        \/ \E i \in DOMAIN WHITELIST_FOLDERS : Contains(name_lower, WHITELIST_FOLDERS[i])
        \/ StartsWith(name_lower, ".")

\* is_old_enough that takes a directory without a readable time for an old one
is_old_enough_lenient(dir, now) ==
    IF dir.modified # None
    THEN LET modified == Unwrap(dir.modified)
             age == IF now >= modified THEN now - modified ELSE 0
         IN  age > min_days_old * 24 * 60 * 60
    ELSE TRUE

\* dir.modified: the modification time of the directory in seconds since the
\* epoch, None when the metadata or the time cannot be read
is_old_enough(dir, now) ==
    IF dir.modified # None
    THEN LET modified == Unwrap(dir.modified)
             age == IF now >= modified THEN now - modified ELSE 0
         IN  age > min_days_old * 24 * 60 * 60
    ELSE FALSE

\* dir.files: the files WalkDir meets below the directory, each with its
\* depth, its length and whether its metadata can be read
RECURSIVE sum_sizes(_)
sum_sizes(files) ==
    IF files = << >> THEN 0 ELSE Head(files).size + sum_sizes(Tail(files))

calculate_folder_size(dir) ==
    LET counted == SelectSeq(dir.files, LAMBDA f : f.depth <= 10 /\ f.meta_ok)
    IN  << sum_sizes(counted), Len(counted) >>

get_last_modified(dir) == IF dir.modified # None THEN Unwrap(dir.modified) ELSE 0

LeftoverEntry(dir) ==
    [path |-> dir.base \o "\\" \o dir.name, size |-> calculate_folder_size(dir)[1],
     app_name |-> dir.name, source |-> dir.source, last_modified |-> get_last_modified(dir),
     file_count |-> calculate_folder_size(dir)[2]]

\* Vec::sort_by(|a, b| b.size.cmp(&a.size)): a stable sort
RECURSIVE insert_by_size(_, _)
insert_by_size(sorted, e) ==
    IF sorted = << >> THEN << e >>
    ELSE IF Head(sorted).size >= e.size
    THEN << Head(sorted) >> \o insert_by_size(Tail(sorted), e)
    ELSE << e >> \o sorted

RECURSIVE sort_by_size(_)
sort_by_size(entries) ==
    IF entries = << >> THEN << >>
    ELSE insert_by_size(sort_by_size(SubSeq(entries, 1, Len(entries) - 1)),
                        entries[Len(entries)])

\* disk: the entries read_dir yields in the scan paths, in order
leftover_scan(disk, installed_apps, now) ==
    LET kept == SelectSeq(disk, LAMBDA d :
                    /\ d.is_dir
                    /\ ~is_whitelisted(d.name)
                    /\ ~leftover_is_installed(d.name, installed_apps)
                    /\ is_old_enough(d, now)
                    /\ calculate_folder_size(d)[1] >= min_size_threshold)
        leftovers == sort_by_size([i \in DOMAIN kept |-> LeftoverEntry(kept[i])])
    IN  [leftovers |-> leftovers,
         total_size |-> sum_sizes(leftovers)]

\* the directories of the model
File(depth, size, meta_ok) == [depth |-> depth, size |-> size, meta_ok |-> meta_ok]

Dir(source, base, name, is_dir_entry, modified, files) ==
    [source |-> source, base |-> base, name |-> name, is_dir |-> is_dir_entry,
     modified |-> modified, files |-> files]

ScanNow == 100000000

Local == "C:\\Users\\test\\AppData\\Local"

Roaming == "C:\\Users\\test\\AppData\\Roaming"

\* the ages around the threshold of 30 days, a time in the future, no time
Modifieds ==
    { Some(ScanNow - 2592000), Some(ScanNow - 2592001), Some(ScanNow - 5184000),
      Some(ScanNow + 60), None }

\* the contents around the threshold of 1 MiB
Contents ==
    { << File(1, 1048576, TRUE) >>,
      << File(1, 1048575, TRUE), File(2, 1, TRUE) >>,
      << File(1, 1048575, TRUE) >>,
      << File(1, 600000, TRUE), File(11, 600000, TRUE) >>,
      << File(1, 2000000, FALSE), File(3, 5, TRUE) >>,
      << File(1, 3000000, TRUE), File(10, 7, TRUE) >> }

Disks ==
    { << Dir("LocalAppData", Local, "OldTool", TRUE, m, c),
         Dir("LocalAppData", Local, "Microsoft", TRUE, Some(0), << File(1, 9000000, TRUE) >>),
         Dir("LocalAppData", Local, "notes.bin", FALSE, Some(0), << File(0, 9000000, TRUE) >>),
         Dir("RoamingAppData", Roaming, "Kraken", TRUE, Some(0), << File(1, 1048576, TRUE) >>),
         Dir("RoamingAppData", Roaming, "VLC Media Player", TRUE, Some(0),
             << File(1, 4000000, TRUE) >>),
         Dir("ProgramData", "C:\\ProgramData", "Widgets", TRUE, Some(1000),
             << File(1, 2000000, TRUE), File(2, 2000000, TRUE) >>) >> :
        m \in Modifieds, c \in Contents }

LeftoverScanCalls ==
    {Call("leftover_scan", << d, apps, ScanNow >>) : d \in Disks, apps \in Indexes}

\* ------------------------------------------------------------------------
\* commands.rs: scan_large_files, cancel_large_file_scan.
\* A path is a number: the rank of the path string in the order of strings,
\* which is all that the comparison of two entries uses.  The time of
\* modification of an entry takes no part in what follows and is left out.
\* ------------------------------------------------------------------------
\* the entries the heap may hold before one is popped
HeapLimit == 50

LargeFileEntry(path, size) == [path |-> path, size |-> size]

\* impl Ord for LargeFileEntry: by size, then by path
EntryLess(a, b) == a.size < b.size \/ (a.size = b.size /\ a.path < b.path)

\* BinaryHeap<Reverse<LargeFileEntry>>::pop with the largest entry taken
heap_pop_largest(h) ==
    h \ {CHOOSE a \in h : \A b \in h : a = b \/ EntryLess(b, a)}

\* BinaryHeap<Reverse<LargeFileEntry>>::pop: the least entry leaves the heap
heap_pop(h) ==
    h \ {CHOOSE a \in h : \A b \in h : a = b \/ EntryLess(a, b)}

\* heap.push(entry); if heap.len() > 50 { heap.pop(); }
heap_push_bounded(h, e) ==
    IF Cardinality(h \cup {e}) > HeapLimit THEN heap_pop(h \cup {e}) ELSE h \cup {e}

\* heap.into_iter().collect() followed by sort_by(|a, b| b.size.cmp(&a.size)):
\* the sequences of the entries by size descending; the order of two entries
\* of one size is the one the heap happens to yield
RECURSIVE sorted_results(_)
sorted_results(h) ==
    IF h = {} THEN { << >> }
    ELSE LET top == {a \in h : \A b \in h : b.size <= a.size}
         IN  UNION { { << a >> \o rest : rest \in sorted_results(h \ {a}) } : a \in top }

\* window.emit
Event(name, payload) == [name |-> name, payload |-> payload]

\* the event of the cancellation left out
emit_cancelled_never(ev) == ev

emit_cancelled(ev) == Append(ev, Event("large-file-scan:cancelled", None))

\* one entry of the walk of C:\: a file, a directory or an entry that could
\* not be read; meta_ok: entry.metadata() succeeds; slow: at least 200 ms
\* have passed since the last progress event when the entry is reached
WalkEntry(kind, path, size, meta_ok, slow) ==
    [kind |-> kind, path |-> path, size |-> size, meta_ok |-> meta_ok, slow |-> slow]

\* the length of the walks
MaxWalk == 53

\* sizes that grow along the walk: every file beyond the 50th pushes one out
WalkAscending ==
    [i \in 1..MaxWalk |-> WalkEntry("file", MaxWalk + 1 - i, 10 * i, TRUE, i = 7)]

\* sizes that fall along the walk: a file beyond the 50th leaves at once
WalkDescending ==
    [i \in 1..MaxWalk |-> WalkEntry("file", i, 10 * (MaxWalk + 1 - i), TRUE, FALSE)]

\* directories and unreadable entries between the files, a file without
\* metadata, two files of the greatest size, and files of the least size of
\* which one stays in the heap, with paths that fall along the walk
LeastSized == {2, 3} \cup 30..(MaxWalk - 22)

WalkMixed ==
    [i \in 1..(MaxWalk + 6) |->
        IF i \in {1, 20, MaxWalk + 5, MaxWalk + 6} THEN WalkEntry("dir", i, 0, TRUE, FALSE)
        ELSE IF i = 9 THEN WalkEntry("error", i, 0, FALSE, FALSE)
        ELSE IF i = 12 THEN WalkEntry("file", i, 900, FALSE, TRUE)
        ELSE IF i \in LeastSized THEN WalkEntry("file", 100 + MaxWalk - i, 5, TRUE, FALSE)
        ELSE IF i \in {4, 40} THEN WalkEntry("file", i, 800, TRUE, i = 40)
        ELSE WalkEntry("file", i, 10 + i, TRUE, FALSE)]

\* fewer files than the heap holds
WalkShort ==
    << WalkEntry("dir", 1, 0, TRUE, FALSE), WalkEntry("file", 2, 30, TRUE, TRUE),
       WalkEntry("file", 3, 70, TRUE, FALSE), WalkEntry("dir", 4, 0, TRUE, FALSE),
       WalkEntry("file", 5, 70, FALSE, FALSE), WalkEntry("file", 6, 50, TRUE, FALSE),
       WalkEntry("dir", 7, 0, TRUE, FALSE) >>

Walks == { WalkAscending, WalkDescending, WalkMixed, WalkShort, << >> }

LargeInit ==
    /\ DeletionIdle /\ RegistryIdle /\ PhysIdle /\ PureIdle /\ ScanIdle /\ CancelIdle
    /\ LARGE_FILE_SCAN_CANCELLED \in BOOLEAN
    /\ walk \in Walks
    /\ wpos = 1
    /\ heap = {}
    /\ file_count = 0
    /\ events = << >>
    /\ scan_pc = "idle"
    /\ scan_result = None
    /\ cancel_at = None

\* scan_large_files: the flag is reset, then the walk starts
ScanLargeFiles ==
    /\ scan_pc = "idle"
    /\ LARGE_FILE_SCAN_CANCELLED' = FALSE
    /\ scan_pc' = "walking"
    /\ UNCHANGED << walk, wpos, heap, file_count, events, scan_result, cancel_at >>
    /\ UNCHANGED << deletion_vars, registry_vars, phys_vars, pure_vars, scan_vars, cancel_vars >>

\* cancel_large_file_scan, at any moment
CancelLargeFileScan ==
    /\ LARGE_FILE_SCAN_CANCELLED' = TRUE
    /\ cancel_at' = IF scan_pc = "walking" /\ cancel_at = None THEN Some(wpos) ELSE cancel_at
    /\ UNCHANGED << walk, wpos, heap, file_count, events, scan_pc, scan_result >>
    /\ UNCHANGED << deletion_vars, registry_vars, phys_vars, pure_vars, scan_vars, cancel_vars >>

\* the iterator passes an entry that is no file, or that could not be read,
\* without entering the body of the loop
WalkSkip ==
    /\ scan_pc = "walking" /\ wpos <= Len(walk)
    /\ walk[wpos].kind # "file"
    /\ wpos' = wpos + 1
    /\ UNCHANGED << LARGE_FILE_SCAN_CANCELLED, walk, heap, file_count, events, scan_pc,
                    scan_result, cancel_at >>
    /\ UNCHANGED << deletion_vars, registry_vars, phys_vars, pure_vars, scan_vars, cancel_vars >>

\* the body of the loop with the flag set: the event, and the heap returned
VisitFileCancelled ==
    /\ scan_pc = "walking" /\ wpos <= Len(walk)
    /\ walk[wpos].kind = "file"
    /\ LARGE_FILE_SCAN_CANCELLED
    /\ events' = emit_cancelled(events)
    /\ \E r \in sorted_results(heap) : scan_result' = Some([ok |-> TRUE, value |-> r])
    /\ scan_pc' = "returned"
    /\ UNCHANGED << LARGE_FILE_SCAN_CANCELLED, walk, wpos, heap, file_count, cancel_at >>
    /\ UNCHANGED << deletion_vars, registry_vars, phys_vars, pure_vars, scan_vars, cancel_vars >>

\* the body of the loop with the flag clear
VisitFile ==
    /\ scan_pc = "walking" /\ wpos <= Len(walk)
    /\ walk[wpos].kind = "file"
    /\ ~LARGE_FILE_SCAN_CANCELLED
    /\ LET entry == walk[wpos]
       IN  IF entry.meta_ok
           THEN /\ file_count' = file_count + 1
                /\ events' = IF entry.slow \/ file_count' % 1000 = 0
                             THEN Append(events, Event("large-file-scan:progress", entry.path))
                             ELSE events
                /\ heap' = heap_push_bounded(heap, LargeFileEntry(entry.path, entry.size))
           ELSE UNCHANGED << file_count, events, heap >>
    /\ wpos' = wpos + 1
    /\ UNCHANGED << LARGE_FILE_SCAN_CANCELLED, walk, scan_pc, scan_result, cancel_at >>
    /\ UNCHANGED << deletion_vars, registry_vars, phys_vars, pure_vars, scan_vars, cancel_vars >>

\* the walk is over: the heap is returned
ScanFinish ==
    /\ scan_pc = "walking" /\ wpos > Len(walk)
    /\ \E r \in sorted_results(heap) : scan_result' = Some([ok |-> TRUE, value |-> r])
    /\ scan_pc' = "returned"
    /\ UNCHANGED << LARGE_FILE_SCAN_CANCELLED, walk, wpos, heap, file_count, events, cancel_at >>
    /\ UNCHANGED << deletion_vars, registry_vars, phys_vars, pure_vars, scan_vars, cancel_vars >>

LargeNext ==
    \/ ScanLargeFiles
    \/ CancelLargeFileScan
    \/ WalkSkip
    \/ VisitFileCancelled
    \/ VisitFile
    \/ ScanFinish

SpecLarge == LargeInit /\ [][LargeNext]_vars

\* ------------------------------------------------------------------------
\* scanner/categories.rs: the categories and their scan paths
\* ------------------------------------------------------------------------
JunkCategory_all ==
    << "WindowsTemp", "SystemCache", "BrowserCache", "RecycleBin", "WindowsUpdate",
       "ThumbnailCache", "LogFiles", "MemoryDump", "OldWindowsInstallation", "AppCache",
       "FontCache", "WindowsErrorReports", "InstallerTemp", "ClipboardCache" >>

fixed_path(path) == [path_type |-> "Fixed", base |-> path, sub_path |-> None]

env_path(env_var, sub_path) ==
    [path_type |-> "EnvBased", base |-> env_var, sub_path |-> sub_path]

get_scan_paths ==
    [ WindowsTemp |->
        << env_path("TEMP", None), env_path("TMP", None), fixed_path("C:\\Windows\\Temp") >>,
      SystemCache |->
        << fixed_path("C:\\Windows\\Prefetch"),
           fixed_path("C:\\Windows\\SoftwareDistribution\\DeliveryOptimization"),
           env_path("LOCALAPPDATA", Some("Microsoft\\Windows\\INetCache")),
           env_path("LOCALAPPDATA", Some("Microsoft\\Windows\\Caches")) >>,
      BrowserCache |->
        << env_path("LOCALAPPDATA", Some("Google\\Chrome\\User Data\\Default\\Cache")),
           env_path("LOCALAPPDATA", Some("Google\\Chrome\\User Data\\Default\\Code Cache")),
           env_path("LOCALAPPDATA", Some("Google\\Chrome\\User Data\\Default\\GPUCache")),
           env_path("LOCALAPPDATA",
                    Some("Google\\Chrome\\User Data\\Default\\Service Worker\\CacheStorage")),
           env_path("LOCALAPPDATA", Some("Google\\Chrome\\User Data\\ShaderCache")),
           env_path("LOCALAPPDATA", Some("Microsoft\\Edge\\User Data\\Default\\Cache")),
           env_path("LOCALAPPDATA", Some("Microsoft\\Edge\\User Data\\Default\\Code Cache")),
           env_path("LOCALAPPDATA", Some("Microsoft\\Edge\\User Data\\Default\\GPUCache")),
           env_path("LOCALAPPDATA",
                    Some("Microsoft\\Edge\\User Data\\Default\\Service Worker\\CacheStorage")),
           env_path("LOCALAPPDATA", Some("Microsoft\\Edge\\User Data\\ShaderCache")),
           env_path("LOCALAPPDATA", Some("Mozilla\\Firefox\\Profiles")),
           env_path("LOCALAPPDATA",
                    Some("BraveSoftware\\Brave-Browser\\User Data\\Default\\Cache")),
           env_path("LOCALAPPDATA",
                    Some("BraveSoftware\\Brave-Browser\\User Data\\Default\\Code Cache")),
           env_path("APPDATA", Some("Opera Software\\Opera Stable\\Cache")) >>,
      RecycleBin |-> << fixed_path("C:\\$Recycle.Bin") >>,
      WindowsUpdate |-> << fixed_path("C:\\Windows\\SoftwareDistribution\\Download") >>,
      ThumbnailCache |-> << env_path("LOCALAPPDATA", Some("Microsoft\\Windows\\Explorer")) >>,
      LogFiles |->
        << fixed_path("C:\\Windows\\Logs"), env_path("LOCALAPPDATA", Some("CrashDumps")) >>,
      MemoryDump |->
        << fixed_path("C:\\Windows\\Minidump"), fixed_path("C:\\Windows\\MEMORY.DMP") >>,
      OldWindowsInstallation |->
        << fixed_path("C:\\Windows.old"), fixed_path("C:\\$Windows.~BT"),
           fixed_path("C:\\$Windows.~WS") >>,
      AppCache |->
        << env_path("LOCALAPPDATA", Some("Temp")), env_path("APPDATA", Some("Local\\Temp")) >>,
      FontCache |->
        << fixed_path("C:\\Windows\\ServiceProfiles\\LocalService\\AppData\\Local\\FontCache") >>,
      WindowsErrorReports |->
        << env_path("LOCALAPPDATA", Some("Microsoft\\Windows\\WER")),
           fixed_path("C:\\ProgramData\\Microsoft\\Windows\\WER") >>,
      InstallerTemp |->
        << fixed_path("C:\\Windows\\Installer\\$PatchCache$"),
           env_path("LOCALAPPDATA", Some("Downloaded Installations")),
           fixed_path("C:\\NVIDIA"), fixed_path("C:\\AMD"), fixed_path("C:\\Intel") >>,
      ClipboardCache |-> << env_path("LOCALAPPDATA", Some("Microsoft\\Windows\\Clipboard")) >> ]

\* ------------------------------------------------------------------------
\* The disk seen by the scan: the entries in the order WalkDir yields them
\* (a directory before what it holds), each with its path, its kind, the
\* length of a file and whether fs::metadata can read it.
\* ------------------------------------------------------------------------
DiskDir(path) == [path |-> path, is_dir |-> TRUE, size |-> 0, meta_ok |-> TRUE]

DiskFile(path, size) == [path |-> path, is_dir |-> FALSE, size |-> size, meta_ok |-> TRUE]

\* PathBuf::push of a relative piece
push(base, sub) == IF EndsWith(base, "\\") THEN base \o sub ELSE base \o "\\" \o sub

\* Path::exists and Path::is_file
path_exists(disk, path) == \E i \in DOMAIN disk : disk[i].path = path

path_is_file(disk, path) == \E i \in DOMAIN disk : disk[i].path = path /\ ~disk[i].is_dir

\* the entry is path itself or lies beneath it
Under(entry_path, path) == entry_path = path \/ StartsWith(entry_path, push(path, ""))

\* ScanPath::resolve: the path when it exists, None otherwise and when the
\* environment variable is not set
resolve(scan_path, env, disk) ==
    LET path ==
            IF scan_path.path_type = "Fixed" THEN Some(scan_path.base)
            ELSE IF env[scan_path.base] = None THEN None
            ELSE IF scan_path.sub_path = None THEN env[scan_path.base]
            ELSE Some(push(Unwrap(env[scan_path.base]), Unwrap(scan_path.sub_path)))
    IN  IF path # None /\ path_exists(disk, Unwrap(path)) THEN path ELSE None

\* ------------------------------------------------------------------------
\* scanner/scan_engine.rs: ScanEngine
\* ------------------------------------------------------------------------
scan_protected_paths ==
    << "system32", "syswow64", "winsxs", "assembly", "\\windows\\servicing",
       "\\windows\\installer", "\\windows\\logs\\cbs", "\\program files",
       "\\program files (x86)", "\\programdata\\microsoft\\windows defender",
       "\\users\\default" >>

scan_protected_exts == << "sys", "dll", "exe", "msi", "cat", "mum", "manifest" >>

\* the variant that filters nothing
scan_is_system_protected_never(path) == FALSE

\* ScanEngine::is_system_protected
scan_is_system_protected(path) ==
    LET path_str == to_lowercase(path)
    IN  \/ \E i \in DOMAIN scan_protected_paths : Contains(path_str, scan_protected_paths[i])
        \/ /\ extension(path) # None
           /\ Contains(path_str, "\\windows\\")
           /\ InList(scan_protected_exts, to_lowercase(Unwrap(extension(path))))

\* ScanEngine::new
scan_max_depth == 10

\* the depth of an entry below the root of its walk
Depth(entry_path, root) == SplitCount(entry_path) - SplitCount(root)

\* WalkDir::new(root).max_depth(..).filter_entry(..): an entry is yielded when
\* neither it nor a directory between the root and it is filtered out
walk_entries(disk, root, depth_limit) ==
    SelectSeq(disk,
        LAMBDA e :
            /\ Under(e.path, root)
            /\ Depth(e.path, root) <= depth_limit
            /\ \A j \in DOMAIN disk :
                  (Under(e.path, disk[j].path) /\ Under(disk[j].path, root))
                      => ~scan_is_system_protected(disk[j].path))

RECURSIVE sum_len(_)
sum_len(entries) ==
    IF entries = << >> THEN 0 ELSE Head(entries).size + sum_len(Tail(entries))

\* ScanEngine::calculate_dir_size: the lengths of the readable files beneath
\* the directory, at any depth and without a filter
calculate_dir_size(disk, path) ==
    sum_len(SelectSeq(disk, LAMBDA e : Under(e.path, path) /\ ~e.is_dir /\ e.meta_ok))

FileInfo(path, name, size, isdir, category) ==
    [path |-> path, name |-> name, size |-> size, is_dir |-> isdir, category |-> category]

\* ScanEngine::get_file_info
get_file_info(disk, e, category) ==
    IF ~e.meta_ok THEN None
    ELSE Some(FileInfo(e.path,
                       IF file_name(e.path) = None THEN "weizhi" ELSE Unwrap(file_name(e.path)),
                       IF e.is_dir THEN calculate_dir_size(disk, e.path) ELSE e.size,
                       e.is_dir, category))

\* CategoryScanResult::new
CategoryScanResult(category) ==
    [category |-> category, files |-> << >>, total_size |-> 0, file_count |-> 0]

\* the variant that keeps the file without counting it
add_file_uncounted(result, file) ==
    [result EXCEPT !.files = Append(@, file)]

\* CategoryScanResult::add_file
add_file(result, file) ==
    [result EXCEPT !.total_size = @ + file.size,
                   !.file_count = @ + 1,
                   !.files = Append(@, file)]

\* the body of the loop of scan_path, for the entries from the k-th on
RECURSIVE scan_entries(_, _, _, _, _, _, _)
scan_entries(disk, entries, k, path, category, patterns, result) ==
    IF k > Len(entries) THEN result
    ELSE LET e == entries[k]
             info == get_file_info(disk, e, category)
             next == IF e.path = path THEN result
                     ELSE IF ~matches_patterns(e.path, patterns) THEN result
                     ELSE IF info = None THEN result
                     ELSE add_file(result, Unwrap(info))
         IN  scan_entries(disk, entries, k + 1, path, category, patterns, next)

\* ScanEngine::scan_path
scan_path(disk, path, category, patterns, result) ==
    IF ~path_exists(disk, path) THEN result
    ELSE IF path_is_file(disk, path)
    THEN LET e == disk[CHOOSE i \in DOMAIN disk : disk[i].path = path]
             info == get_file_info(disk, e, category)
         IN  IF info = None THEN result ELSE add_file(result, Unwrap(info))
    ELSE scan_entries(disk, walk_entries(disk, path, scan_max_depth), 1,
                      path, category, patterns, result)

\* the loop of scan_category over the scan paths from the k-th on
RECURSIVE scan_paths_from(_, _, _, _, _)
scan_paths_from(disk, env, category, k, result) ==
    LET scan_paths == get_scan_paths[category]
    IN  IF k > Len(scan_paths) THEN result
        ELSE LET resolved_path == resolve(scan_paths[k], env, disk)
                 next == IF resolved_path = None THEN result
                         ELSE scan_path(disk, Unwrap(resolved_path), category,
                                        get_file_patterns[category], result)
             IN  scan_paths_from(disk, env, category, k + 1, next)

\* ScanEngine::scan_category
scan_category(disk, env, category) ==
    scan_paths_from(disk, env, category, 1, CategoryScanResult(category))

\* the resolved scan paths of a category
resolved_scan_paths(disk, env, category) ==
    {Unwrap(resolve(get_scan_paths[category][k], env, disk)) :
        k \in {j \in DOMAIN get_scan_paths[category] :
                  resolve(get_scan_paths[category][j], env, disk) # None}}

\* ScanResult::new
ScanResult == [categories |-> << >>, total_size |-> 0, total_file_count |-> 0]

\* the variant that keeps the result of the category without adding it up
add_category_result_unsummed(result, category_result) ==
    [result EXCEPT !.categories = Append(@, category_result)]

\* ScanResult::add_category_result
add_category_result(result, category_result) ==
    [result EXCEPT !.total_size = @ + category_result.total_size,
                   !.total_file_count = @ + category_result.file_count,
                   !.categories = Append(@, category_result)]

\* ------------------------------------------------------------------------
\* The environments and the disk of the scans of the model
\* ------------------------------------------------------------------------
U_local == "C:\\Users\\alice\\AppData\\Local"

\* the variables as Windows sets them for a user
EnvStandard ==
    [TEMP |-> Some(push(U_local, "Temp")), TMP |-> Some(push(U_local, "Temp")),
     LOCALAPPDATA |-> Some(U_local), APPDATA |-> Some("C:\\Users\\alice\\AppData\\Roaming")]

\* the temporary directory moved to another drive
EnvMoved == [EnvStandard EXCEPT !.TEMP = Some("D:\\Temp"), !.TMP = Some("D:\\Scratch")]

\* TMP names a file of a program directory
EnvFile == [EnvMoved EXCEPT !.TMP = Some("C:\\Program Files\\Tool\\scratch.dat")]

EnvUnset == [TEMP |-> None, TMP |-> None, LOCALAPPDATA |-> None, APPDATA |-> None]

ScanEnvs == { EnvStandard, EnvMoved, EnvFile, EnvUnset }

ScanDisk ==
    << DiskDir("C:\\$Recycle.Bin"),
       DiskDir("C:\\$Recycle.Bin\\S-1-5-21"),
       DiskFile("C:\\$Recycle.Bin\\S-1-5-21\\$R1.txt", 8),
       DiskDir("C:\\Program Files"),
       DiskDir("C:\\Program Files\\Tool"),
       DiskFile("C:\\Program Files\\Tool\\scratch.dat", 11),
       DiskDir("C:\\Users"),
       DiskDir("C:\\Users\\alice"),
       DiskDir("C:\\Users\\alice\\AppData"),
       DiskDir(U_local),
       DiskDir(push(U_local, "CrashDumps")),
       DiskFile(push(U_local, "CrashDumps\\app.dmp"), 30),
       DiskFile(push(U_local, "CrashDumps\\app.LOG"), 2),
       DiskDir(push(U_local, "Temp")),
       DiskDir(push(U_local, "Temp\\setup")),
       DiskFile(push(U_local, "Temp\\setup\\a.tmp"), 10),
       DiskFile(push(U_local, "Temp\\t1.tmp"), 6),
       DiskDir("C:\\Windows"),
       DiskDir("C:\\Windows\\Installer"),
       DiskDir("C:\\Windows\\Installer\\$PatchCache$"),
       DiskFile("C:\\Windows\\Installer\\$PatchCache$\\x.msp", 9),
       DiskDir("C:\\Windows\\Logs"),
       DiskDir("C:\\Windows\\Logs\\CBS"),
       DiskFile("C:\\Windows\\Logs\\CBS\\CBS.log", 20),
       DiskFile("C:\\Windows\\Logs\\setup.log", 4),
       DiskFile("C:\\Windows\\MEMORY.DMP", 100),
       DiskDir("C:\\Windows\\Temp"),
       DiskDir("C:\\Windows\\Temp\\Assembly"),
       DiskFile("C:\\Windows\\Temp\\Assembly\\c.tmp", 7),
       DiskFile("C:\\Windows\\Temp\\b.log", 5),
       [DiskFile("C:\\Windows\\Temp\\gone.tmp", 13) EXCEPT !.meta_ok = FALSE],
       DiskFile("C:\\Windows\\Temp\\tool.exe", 3),
       DiskDir("D:\\Scratch"),
       DiskFile("D:\\Scratch\\s.tmp", 1),
       DiskDir("D:\\Temp"),
       DiskFile("D:\\Temp\\d.tmp", 2) >>

ScanCategoryCalls ==
    {Call("scan_category", << ScanDisk, env, JunkCategory_all[k] >>) :
        env \in ScanEnvs, k \in DOMAIN JunkCategory_all}

ResolveCalls == {Call("resolved_scan_paths", << ScanDisk, env >>) : env \in ScanEnvs}

\* ------------------------------------------------------------------------
\* commands.rs: delete_leftover_folders
\* ------------------------------------------------------------------------
allowed_prefixes == << "appdata\\local", "appdata\\roaming", "programdata" >>

\* the variant that lets no path through
is_safe_leftover_path_never(path) == FALSE

\* is_safe_leftover_path: the lowercased path contains one of the prefixes
is_safe_leftover_path(path) ==
    LET path_str == to_lowercase(path)
    IN  \E i \in DOMAIN allowed_prefixes : Contains(path_str, allowed_prefixes[i])

\* the loop of delete_leftover_folders from the k-th path on.  acc holds the
\* counters and lists of the result, the calls made and the paths removed so
\* far; cands[k].f is the entry the disk holds for the path before the call.
\* (deleted_size is left out: the directories of the model have no sizes.)
RECURSIVE delete_folders_from(_, _, _)
delete_folders_from(cands, k, acc) ==
    IF k > Len(cands) THEN acc
    ELSE LET path == cands[k].path
             f == IF path \in acc.removed THEN Absent ELSE cands[k].f
             r == remove_result(f)
             next ==
                IF ~is_safe_leftover_path(path)
                THEN [acc EXCEPT
                        !.failed_paths = Append(@, path),
                        !.errors = Append(@, "lujing bu zai yunxu de mulu nei: " \o path)]
                ELSE IF r = "Ok"
                THEN [acc EXCEPT
                        !.deleted_count = @ + 1,
                        !.ops = Append(@, Op(path, "remove")),
                        !.removed = @ \cup {path}]
                ELSE [acc EXCEPT
                        !.failed_paths = Append(@, path),
                        !.errors = Append(@, "shanchu shibai " \o path \o ": "
                                             \o io_error_message(r)),
                        !.ops = Append(@, Op(path, "remove"))]
         IN  delete_folders_from(cands, k + 1, next)

delete_leftover_folders(cands) ==
    delete_folders_from(cands, 1,
        [deleted_count |-> 0, failed_paths |-> << >>, errors |-> << >>,
         ops |-> << >>, removed |-> {}])

\* the requests of the command: at most two directories
FolderRequests == UNION {[1..n -> LeftoverCands] : n \in 0..2}

FolderCalls == {Call("delete_leftover_folders", << r >>) : r \in FolderRequests}

\* ------------------------------------------------------------------------
\* scanner/scan_engine.rs: ScanEngine::scan.  One thread is spawned for each
\* category; a thread scans its category, then locks the vector and pushes
\* its result; the caller joins the threads in the order it spawned them and
\* adds up what the vector holds.
\* ------------------------------------------------------------------------
\* the most categories of one scan of the model
MaxCategories == 3

\* the categories the scans of the model choose from
ScanPool == { "WindowsTemp", "RecycleBin", "LogFiles", "MemoryDump", "AppCache" }

\* with_categories: a selection, in the order of JunkCategory::all
CategoryLists ==
    {SelectSeq(JunkCategory_all, LAMBDA c : c \in chosen) :
        chosen \in {s \in SUBSET ScanPool : Cardinality(s) <= MaxCategories}}

\* engine.scan_category(&category) on the disk of the model, evaluated once
\* for each category
ScanOf == [c \in ScanPool |-> scan_category(ScanDisk, EnvStandard, c)]

ScanInit ==
    /\ DeletionIdle /\ RegistryIdle /\ PhysIdle /\ PureIdle /\ LargeIdle /\ CancelIdle
    /\ categories \in CategoryLists
    /\ handles = [t \in DOMAIN categories |-> "unspawned"]
    /\ worker_result = [t \in DOMAIN categories |-> None]
    /\ category_results = << >>
    /\ scan_main = "spawn"
    /\ scan_index = 1
    /\ scan_output = None

\* thread::spawn for the next category
Spawn ==
    /\ scan_main = "spawn" /\ scan_index <= Len(categories)
    /\ handles' = [handles EXCEPT ![scan_index] = "running"]
    /\ scan_index' = scan_index + 1
    /\ UNCHANGED << categories, worker_result, category_results, scan_main, scan_output >>
    /\ UNCHANGED << deletion_vars, registry_vars, phys_vars, pure_vars, large_vars, cancel_vars >>

\* every thread is spawned: the caller turns to the handles
SpawnEnd ==
    /\ scan_main = "spawn" /\ scan_index > Len(categories)
    /\ scan_main' = "join"
    /\ scan_index' = 1
    /\ UNCHANGED << categories, handles, worker_result, category_results, scan_output >>
    /\ UNCHANGED << deletion_vars, registry_vars, phys_vars, pure_vars, large_vars, cancel_vars >>

\* a thread: engine.scan_category(&category)
WorkerScan(t) ==
    /\ handles[t] = "running"
    /\ worker_result' = [worker_result EXCEPT ![t] = Some(ScanOf[categories[t]])]
    /\ handles' = [handles EXCEPT ![t] = "scanned"]
    /\ UNCHANGED << categories, category_results, scan_main, scan_index, scan_output >>
    /\ UNCHANGED << deletion_vars, registry_vars, phys_vars, pure_vars, large_vars, cancel_vars >>

\* a thread: results.lock().unwrap().push(category_result), and its end
WorkerPush(t) ==
    /\ handles[t] = "scanned"
    /\ category_results' = Append(category_results, Unwrap(worker_result[t]))
    /\ handles' = [handles EXCEPT ![t] = "finished"]
    /\ UNCHANGED << categories, worker_result, scan_main, scan_index, scan_output >>
    /\ UNCHANGED << deletion_vars, registry_vars, phys_vars, pure_vars, large_vars, cancel_vars >>

\* handle.join() returns when the thread has finished
Join ==
    /\ scan_main = "join" /\ scan_index <= Len(categories)
    /\ handles[scan_index] = "finished"
    /\ scan_index' = scan_index + 1
    /\ UNCHANGED << categories, handles, worker_result, category_results, scan_main,
                    scan_output >>
    /\ UNCHANGED << deletion_vars, registry_vars, phys_vars, pure_vars, large_vars, cancel_vars >>

\* every thread is joined: ScanResult::new()
JoinEnd ==
    /\ scan_main = "join" /\ scan_index > Len(categories)
    /\ scan_main' = "sum"
    /\ scan_index' = 1
    /\ scan_output' = Some(ScanResult)
    /\ UNCHANGED << categories, handles, worker_result, category_results >>
    /\ UNCHANGED << deletion_vars, registry_vars, phys_vars, pure_vars, large_vars, cancel_vars >>

\* result.add_category_result(category_result.clone()) for the next result
AddCategoryResult ==
    /\ scan_main = "sum" /\ scan_index <= Len(category_results)
    /\ scan_output' = Some(add_category_result(Unwrap(scan_output),
                                               category_results[scan_index]))
    /\ scan_index' = scan_index + 1
    /\ UNCHANGED << categories, handles, worker_result, category_results, scan_main >>
    /\ UNCHANGED << deletion_vars, registry_vars, phys_vars, pure_vars, large_vars, cancel_vars >>

\* scan returns the ScanResult
ScanReturn ==
    /\ scan_main = "sum" /\ scan_index > Len(category_results)
    /\ scan_main' = "returned"
    /\ UNCHANGED << categories, handles, worker_result, category_results, scan_index,
                    scan_output >>
    /\ UNCHANGED << deletion_vars, registry_vars, phys_vars, pure_vars, large_vars, cancel_vars >>

ScanNext ==
    \/ Spawn
    \/ SpawnEnd
    \/ \E t \in DOMAIN handles : WorkerScan(t)
    \/ \E t \in DOMAIN handles : WorkerPush(t)
    \/ Join
    \/ JoinEnd
    \/ AddCategoryResult
    \/ ScanReturn

SpecScan == ScanInit /\ [][ScanNext]_vars

\* ------------------------------------------------------------------------
\* commands.rs: the flag LARGE_FILE_SCAN_CANCELLED shared by every
\* scan_large_files command and by cancel_large_file_scan.  A command stores
\* false into the flag and starts its walk on a blocking thread; the walk
\* loads the flag before every file.
\* ------------------------------------------------------------------------
\* the scan_large_files commands of the model
MaxCalls == 2

\* the most files the walk of a command meets
MaxFiles == 2

\* a command is not invoked yet
NotInvoked == [pc |-> "idle", files |-> 0, left |-> 0, cancel_requested |-> FALSE]

\* the walk of the command loads the flag at least once more
WillPoll(s) == (s.pc = "poll" /\ s.left > 0) \/ (s.pc = "visit" /\ s.left > 1)

\* the walks a cancel request is meant for: those that are under way
requested_for_walking(ss) ==
    [c \in DOMAIN ss |-> IF WillPoll(ss[c]) THEN [ss[c] EXCEPT !.cancel_requested = TRUE]
                                             ELSE ss[c]]

\* LARGE_FILE_SCAN_CANCELLED.load(SeqCst) before a file
poll(s, flag) == [s EXCEPT !.pc = IF flag THEN "cancelled" ELSE "visit"]

CancelInit ==
    /\ DeletionIdle /\ RegistryIdle /\ PhysIdle /\ PureIdle /\ LargeIdle /\ ScanIdle
    /\ scans = [c \in 1..MaxCalls |-> NotInvoked]

\* scan_large_files: the flag is reset, the walk is handed to spawn_blocking
ScanLargeFilesCall(c) ==
    /\ scans[c].pc = "idle"
    /\ LARGE_FILE_SCAN_CANCELLED' = FALSE
    /\ \E n \in 0..MaxFiles :
          scans' = [scans EXCEPT ![c] = [pc |-> "poll", files |-> n, left |-> n,
                                         cancel_requested |-> FALSE]]
    /\ UNCHANGED << walk, wpos, heap, file_count, events, scan_pc, scan_result, cancel_at >>
    /\ UNCHANGED << deletion_vars, registry_vars, phys_vars, pure_vars, scan_vars >>

\* cancel_large_file_scan
CancelRequest ==
    /\ LARGE_FILE_SCAN_CANCELLED' = TRUE
    /\ scans' = requested_for_walking(scans)
    /\ UNCHANGED << walk, wpos, heap, file_count, events, scan_pc, scan_result, cancel_at >>
    /\ UNCHANGED << deletion_vars, registry_vars, phys_vars, pure_vars, scan_vars >>

\* the walk meets a file and loads the flag: it returns what it has, or goes on
WalkPoll(c) ==
    /\ scans[c].pc = "poll" /\ scans[c].left > 0
    /\ scans' = [scans EXCEPT ![c] = poll(scans[c], LARGE_FILE_SCAN_CANCELLED)]
    /\ UNCHANGED large_vars
    /\ UNCHANGED << deletion_vars, registry_vars, phys_vars, pure_vars, scan_vars >>

\* the walk reads the metadata of the file and pushes it
WalkVisit(c) ==
    /\ scans[c].pc = "visit"
    /\ scans' = [scans EXCEPT ![c] = [@ EXCEPT !.pc = "poll", !.left = @ - 1]]
    /\ UNCHANGED large_vars
    /\ UNCHANGED << deletion_vars, registry_vars, phys_vars, pure_vars, scan_vars >>

\* the walk is at its end: the command returns the complete result
WalkEnd(c) ==
    /\ scans[c].pc = "poll" /\ scans[c].left = 0
    /\ scans' = [scans EXCEPT ![c] = [@ EXCEPT !.pc = "finished"]]
    /\ UNCHANGED large_vars
    /\ UNCHANGED << deletion_vars, registry_vars, phys_vars, pure_vars, scan_vars >>

CancelNext ==
    \/ \E c \in DOMAIN scans : ScanLargeFilesCall(c)
    \/ CancelRequest
    \/ \E c \in DOMAIN scans : WalkPoll(c)
    \/ \E c \in DOMAIN scans : WalkVisit(c)
    \/ \E c \in DOMAIN scans : WalkEnd(c)

SpecCancel == CancelInit /\ [][CancelNext]_vars

\* ------------------------------------------------------------------------
\* One call of a function of the scanners and of the gates
\* ------------------------------------------------------------------------
PureCalls == GlobCalls \cup PatternCalls \cup GateCalls \cup ScopeCalls
             \cup LeftoverGateCalls \cup InstalledCalls
             \cup RegistryScanCalls \cup LeftoverScanCalls
             \cup ScanCategoryCalls \cup ResolveCalls \cup FolderCalls

PureInit ==
    /\ DeletionIdle /\ RegistryIdle /\ PhysIdle /\ LargeIdle /\ ScanIdle /\ CancelIdle
    /\ call \in {Some(c) : c \in PureCalls}
    /\ ret = None

\* the call under way is a call of fn that has not returned
Calling(fn) == call # None /\ Unwrap(call).fn = fn /\ ret = None

Arg(k) == Unwrap(call).arg[k]

Return(value) ==
    /\ ret' = Some(value)
    /\ UNCHANGED call
    /\ UNCHANGED << deletion_vars, registry_vars, phys_vars, large_vars, scan_vars, cancel_vars >>

MatchesGlob ==
    /\ Calling("matches_glob")
    /\ Return(matches_glob(Arg(1), Arg(2)))

MatchesPatterns ==
    /\ Calling("matches_patterns")
    /\ Return(matches_patterns(Arg(1), get_file_patterns[Arg(2)]))

IsProtectedPath ==
    /\ Calling("is_protected_path")
    /\ Return([protected |-> is_protected_path(Arg(1)), layer |-> rejecting_layer(Arg(1))])

IsInAllowedScope ==
    /\ Calling("is_in_allowed_scope")
    /\ Return(is_in_allowed_scope(Arg(1)))

CheckProtectedPath ==
    /\ Calling("check_protected_path")
    /\ Return(check_protected_path(Arg(1)))

\* the engine reports one of the entries that match, if there is one
CheckRegistryPresence ==
    /\ Calling("check_registry_presence")
    /\ LET hits == check_registry_presence(Arg(1))
       IN  \/ hits = {} /\ Return(None)
           \/ \E app \in hits : Return(Some(<< "yi anzhuang chengxu", app >>))

LeftoverIsInstalled ==
    /\ Calling("leftover_is_installed")
    /\ Return(leftover_is_installed(Arg(1), Arg(2)))

RegistryIsInstalled ==
    /\ Calling("registry_is_installed")
    /\ Return(registry_is_installed(Arg(1), Arg(2)))

RegistryScan ==
    /\ Calling("registry_scan")
    /\ Return(registry_scan(Arg(1), Arg(2)))

LeftoverScan ==
    /\ Calling("leftover_scan")
    /\ Return(leftover_scan(Arg(1), Arg(2), Arg(3)))

ScanCategory ==
    /\ Calling("scan_category")
    /\ Return(scan_category(Arg(1), Arg(2), Arg(3)))

\* the scan paths of every category, resolved as scan_category resolves them
ResolvedScanPaths ==
    /\ Calling("resolved_scan_paths")
    /\ Return([k \in DOMAIN JunkCategory_all |->
                  resolved_scan_paths(Arg(1), Arg(2), JunkCategory_all[k])])

DeleteLeftoverFolders ==
    /\ Calling("delete_leftover_folders")
    /\ Return(delete_leftover_folders(Arg(1)))

PureNext ==
    \/ MatchesGlob
    \/ MatchesPatterns
    \/ IsProtectedPath
    \/ IsInAllowedScope
    \/ CheckProtectedPath
    \/ CheckRegistryPresence
    \/ LeftoverIsInstalled
    \/ RegistryIsInstalled
    \/ RegistryScan
    \/ LeftoverScan
    \/ ScanCategory
    \/ ResolvedScanPaths
    \/ DeleteLeftoverFolders

SpecPure == PureInit /\ [][PureNext]_vars

\* ------------------------------------------------------------------------
\* Properties of the file name patterns
\* ------------------------------------------------------------------------
\* the call of fn has returned
Returned(fn) == call # None /\ Unwrap(call).fn = fn /\ ret # None

\* the matcher that compares without case in the name and in the pattern
glob_reference(name_in, pattern_in) ==
    LET pattern == to_lowercase(pattern_in)
        name == to_lowercase(name_in)
    IN  IF pattern = "*" THEN TRUE
        ELSE IF StartsWith(pattern, "*") /\ EndsWith(pattern, "*")
        THEN Contains(name, SubSeq(pattern, 2, Len(pattern) - 1))
        ELSE IF StartsWith(pattern, "*")
        THEN EndsWith(name, SubSeq(pattern, 2, Len(pattern)))
        ELSE IF EndsWith(pattern, "*")
        THEN StartsWith(name, SubSeq(pattern, 1, Len(pattern) - 1))
        ELSE name = pattern

\* C16: matches_glob(name, pattern) compares without case in the name and in
\* the pattern and equals the reference matcher (`*` every name, `*mid*`
\* contains, `*suffix` ends with, `prefix*` starts with, else equality), so
\* that matches_glob("test.LOG", "*.log") is true.
C16_GlobIgnoresCase ==
    Returned("matches_glob") =>
        Unwrap(ret) = glob_reference(Arg(1), Arg(2))

\* the positions of the `*` of a pattern
Stars(pattern) == {i \in 1..Len(pattern) : CharAt(pattern, i) = "*"}

\* a pattern with one `*`, which is neither its first nor its last character
InteriorStar(pattern) ==
    /\ Cardinality(Stars(pattern)) = 1
    /\ \A i \in Stars(pattern) : 1 < i /\ i < Len(pattern)

\* the name starts with the part before the `*` and ends with the part after
interior_reference(name_in, pattern_in) ==
    LET pattern == to_lowercase(pattern_in)
        name == to_lowercase(name_in)
        i == CHOOSE k \in Stars(pattern) : TRUE
        before == SubSeq(pattern, 1, i - 1)
        after == SubSeq(pattern, i + 1, Len(pattern))
    IN  /\ Len(before) + Len(after) <= Len(name)
        /\ StartsWith(name, before)
        /\ EndsWith(name, after)

\* C17: a pattern with a single `*` in its interior (thumbcache_*.db,
\* iconcache_*.db) matches every file name that starts with the part before
\* the `*` and ends with the part after it, in matches_glob and for the files
\* scanned for a category (matches_patterns).
C17_InteriorStarMatches ==
    /\ (Returned("matches_glob") /\ InteriorStar(Arg(2))) =>
          (interior_reference(Arg(1), Arg(2)) => Unwrap(ret) = TRUE)
    /\ Returned("matches_patterns") =>
          \A i \in DOMAIN get_file_patterns[Arg(2)] :
              LET pattern == get_file_patterns[Arg(2)][i]
              IN  (/\ InteriorStar(pattern)
                   /\ file_name(Arg(1)) # None
                   /\ interior_reference(Unwrap(file_name(Arg(1))), pattern))
                  => Unwrap(ret) = TRUE

\* ------------------------------------------------------------------------
\* Properties of the delete gate called on its own
\* ------------------------------------------------------------------------
\* the five roots of a user, as the layer is described
CriticalRootSuffixes ==
    { "\\appdata\\local", "\\appdata\\roaming", "\\documents", "\\desktop", "\\downloads" }

EndsWithCriticalRoot(path) ==
    \E s \in CriticalRootSuffixes : EndsWith(to_lowercase(path), s)

\* the path goes on below one of the roots
BeneathCriticalRoot(path) ==
    \E s \in CriticalRootSuffixes : Contains(to_lowercase(path), s \o "\\")

\* C18: the gate of DeleteEngine rejects every path whose lowercased form
\* ends with \appdata\local, \appdata\roaming, \documents, \desktop or
\* \downloads, and does not reject on that ground a path that lies beneath
\* such a root: C:\Users\alice\Desktop is rejected,
\* C:\Users\bob\Desktop\scratch.txt passes the gate.
C18_RootRejectedNotBeneath ==
    Returned("is_protected_path") =>
        LET r == Unwrap(ret)
        IN  /\ EndsWithCriticalRoot(Arg(1)) => r.protected
            /\ ~EndsWithCriticalRoot(Arg(1)) => r.layer # "UserCriticalRoot"
            /\ r.protected <=> r.layer # "none"
            /\ Arg(1) = P_desktop => r.layer = "UserCriticalRoot"
            /\ Arg(1) = P_scratch => ~r.protected

\* the gate was asked about a file below a Desktop and let it pass
C18_Witness ==
    /\ Returned("is_protected_path")
    /\ BeneathCriticalRoot(Arg(1))
    /\ ~EndsWithCriticalRoot(Arg(1))
    /\ ~Unwrap(ret).protected

\* ------------------------------------------------------------------------
\* Properties of check_protected_path called on its own
\* ------------------------------------------------------------------------
\* the components of a path, lowercased: the names between its separators
RECURSIVE Components(_)
Components(path) ==
    LET t == StripTrailingSeps(path)
        i == LastSep(t)
    IN  IF t = "" THEN << >>
        ELSE Append(Components(SubSeq(t, 1, i)), to_lowercase(SubSeq(t, i + 1, Len(t))))

HasPrefix(seq, pre) == Len(pre) <= Len(seq) /\ SubSeq(seq, 1, Len(pre)) = pre

UserFolders == { "desktop", "documents", "downloads", "pictures", "videos", "music" }

\* the directory the path names is a protected location or lies under one,
\* is the root of a drive, or is the profile of a user
InProtectedLocation(path) ==
    LET c == Components(path)
    IN  \/ HasPrefix(c, << "c:", "windows" >>)
        \/ HasPrefix(c, << "c:", "program files" >>)
        \/ HasPrefix(c, << "c:", "program files (x86)" >>)
        \/ HasPrefix(c, << "c:", "programdata", "microsoft" >>)
        \/ HasPrefix(c, << "c:", "boot" >>)
        \/ HasPrefix(c, << "c:", "recovery" >>)
        \/ HasPrefix(c, << "c:", "$recycle.bin" >>)
        \/ HasPrefix(c, << "c:", "users" >>) /\ Len(c) >= 4 /\ c[4] \in UserFolders
        \/ Len(c) = 1 /\ Len(c[1]) = 2 /\ EndsWith(c[1], ":")
        \/ HasPrefix(c, << "c:", "users" >>) /\ Len(c) = 3

\* C19: check_protected_path returns a reason for every path that lies in or
\* under a protected location (the Windows tree, a user's Desktop, Documents,
\* Downloads, Pictures, Videos or Music folder and what is beneath it,
\* Program Files, ProgramData\Microsoft, the boot, recovery and recycle-bin
\* roots), for every drive root and for every user profile directly under
\* C:\Users, and none for C:\Users\test\AppData\Local\SomeApp.
C19_ProtectedLocationsRejected ==
    Returned("check_protected_path") =>
        /\ InProtectedLocation(Arg(1)) => Unwrap(ret) # None
        /\ Arg(1) = L_someapp => Unwrap(ret) = None

\* ------------------------------------------------------------------------
\* Properties of the installed-program lookups
\* ------------------------------------------------------------------------
\* the lowercased token equals or is a substring of an entry, the token and
\* that entry having at least 4 characters
installed_reference(token, index) ==
    LET t == to_lowercase(token)
    IN  \E e \in index : Contains(e, t) /\ Len(t) >= 4 /\ Len(e) >= 4

\* C13: the installed-program lookup returns true for a token if and only if
\* the lowercased token equals or is a substring of some index entry and both
\* have at least 4 characters: a token shorter than 4 characters is never
\* reported installed, nor is a token that merely contains an entry.
C13_InstalledLookup ==
    /\ Returned("check_registry_presence") =>
          ((Unwrap(ret) # None) <=> installed_reference(Arg(1), installed_apps_cache))
    /\ Returned("leftover_is_installed") =>
          (Unwrap(ret) <=> installed_reference(Arg(1), Arg(2)))
    /\ Returned("registry_is_installed") =>
          (Unwrap(ret) <=> installed_reference(Arg(1), Arg(2)))

\* ------------------------------------------------------------------------
\* Properties of RegistryScanner::scan
\* ------------------------------------------------------------------------
Whitelisted(text) ==
    \E i \in DOMAIN REGISTRY_WHITELIST : Contains(to_lowercase(text), REGISTRY_WHITELIST[i])

RECURSIVE recursive_size(_)
recursive_size(files) ==
    IF files = << >> THEN 0 ELSE Head(files).size + recursive_size(Tail(files))

\* the directory of the disk an entry of the result was made from
SourceDirs(disk, e) ==
    {k \in DOMAIN disk : disk[k].base \o "\\" \o disk[k].name = e.path}

\* C12: every LeftoverEntry returned by LeftoverScanner.scan has a
\* last-modified age of at least 30 days and a recursive size of at least
\* 1 MiB; a directory whose modification time cannot be read is never
\* emitted, and the list is sorted by size in descending order.
C12_OldAndLargeSorted ==
    Returned("leftover_scan") =>
        LET disk == Arg(1)
            now == Arg(3)
            leftovers == Unwrap(ret).leftovers
        IN  /\ \A i \in DOMAIN leftovers :
                  /\ SourceDirs(disk, leftovers[i]) # {}
                  /\ \A k \in SourceDirs(disk, leftovers[i]) :
                        /\ disk[k].is_dir
                        /\ disk[k].modified # None
                        /\ now - Unwrap(disk[k].modified) >= 30 * 24 * 60 * 60
                        /\ recursive_size(disk[k].files) >= 1024 * 1024
            /\ \A i, j \in DOMAIN leftovers : i < j => leftovers[i].size >= leftovers[j].size

\* a scan that met a directory without a readable time and one that is 30
\* days old to the second, and returned other directories of that disk
C12_Witness ==
    /\ Returned("leftover_scan")
    /\ \E k \in DOMAIN Arg(1) : Arg(1)[k].is_dir /\ Arg(1)[k].modified = None
    /\ Len(Unwrap(ret).leftovers) >= 2
    /\ Unwrap(ret).leftovers[1].size > Unwrap(ret).leftovers[2].size

\* ------------------------------------------------------------------------
\* Properties of the tiers of the enhanced engine
\* ------------------------------------------------------------------------
TierOrder == << "direct", "attrs", "ownership" >>

\* the calls of a log that belong to the tiers, in order
TierCalls(ops) == SelectSeq(ops, LAMBDA o : o.op \in {"remove", "attr", "own"})

\* the take-ownership tier applies to the path
OwnershipApplies(path) == cfg.enable_take_ownership /\ is_safe_for_ownership(path)

\* C20: try_delete attempts the tiers in the order direct remove,
\* strip-attributes retry, take-ownership retry; a tier is attempted only if
\* every earlier tier failed, no tier runs after one has succeeded, and a
\* failure is recorded only after every applicable tier has failed.
C20_TiersInOrder ==
    engine = "enhanced" =>
        \A i \in DOMAIN results :
            LET r == results[i]
                t == r.tiers
                c == TierCalls(oplog[i])
            IN  /\ Len(t) <= Len(TierOrder)
                /\ \A k \in DOMAIN t : t[k].tier = TierOrder[k]
                /\ \A k \in DOMAIN t : k < Len(t) => ~t[k].ok
                /\ r.success => t # << >> /\ t[Len(t)].ok
                /\ (~r.success /\ t # << >>) =>
                      /\ \A k \in DOMAIN t : ~t[k].ok
                      /\ Len(t) >= 2
                      /\ OwnershipApplies(paths[i]) => Len(t) = 3
                /\ t = << >> <=> c = << >>
                /\ t # << >> => c[1].op = "remove"
                /\ Len(t) >= 2 <=> \E k \in DOMAIN c : c[k].op = "attr"
                /\ Len(t) = 3 <=> \E k \in DOMAIN c : c[k].op = "own"
                /\ \A k \in DOMAIN c : c[k].op = "own" =>
                      \E j \in 1..(k - 1) : c[j].op = "attr"
                /\ \A k \in DOMAIN c : c[k].op = "attr" => k = 2

\* one candidate was removed by the third tier and another one failed in
\* every tier that applies to it
C20_Witness ==
    /\ engine = "enhanced"
    /\ \E i, j \in DOMAIN results :
          /\ results[i].success /\ Len(results[i].tiers) = 3
          /\ ~results[j].success /\ results[j].tiers # << >>

\* ------------------------------------------------------------------------
\* Properties of the large-file scan
\* ------------------------------------------------------------------------
\* the files of the walk before position k whose size was read
SeenBefore(k) ==
    {LargeFileEntry(walk[i].path, walk[i].size) :
        i \in {j \in 1..(k - 1) : j <= Len(walk) /\ walk[j].kind = "file" /\ walk[j].meta_ok}}

\* the n greatest entries of a set, by size and then by path
RECURSIVE Greatest(_, _)
Greatest(s, n) ==
    IF Cardinality(s) <= n THEN s
    ELSE Greatest(s \ {CHOOSE a \in s : \A b \in s : a = b \/ EntryLess(a, b)}, n)

Elements(seq) == {seq[i] : i \in DOMAIN seq}

\* a sequence without repetition, by size descending
Descending(seq) ==
    /\ \A i, j \in DOMAIN seq : i < j => seq[i].size >= seq[j].size
    /\ Cardinality(Elements(seq)) = Len(seq)

CancelledEvents ==
    Cardinality({k \in DOMAIN events : events[k].name = "large-file-scan:cancelled"})

\* the first file entry of the walk at or after position k, 0 when none
NextFile(k) ==
    LET later == {i \in k..Len(walk) : walk[i].kind = "file"}
    IN  IF later = {} THEN 0 ELSE CHOOSE i \in later : \A j \in later : i <= j

\* C15: a large-file scan that runs to completion returns at most 50 entries
\* sorted by size descending, and every returned file is at least as large as
\* every visited file that is not returned; after each visited file the heap
\* holds at most 50 entries, the largest seen so far, ties broken by path.
C15_TopFifty ==
    /\ scan_pc \in {"walking", "returned"} =>
          /\ Cardinality(heap) <= 50
          /\ heap = Greatest(SeenBefore(wpos), 50)
          /\ file_count = Cardinality(SeenBefore(wpos))
    /\ (scan_pc = "returned" /\ CancelledEvents = 0) =>
          LET r == Unwrap(scan_result)
          IN  /\ r.ok
              /\ wpos = Len(walk) + 1
              /\ Len(r.value) <= 50
              /\ Descending(r.value)
              /\ Elements(r.value) = heap
              /\ \A a \in Elements(r.value) :
                    \A b \in SeenBefore(wpos) \ Elements(r.value) :
                        a.size >= b.size /\ EntryLess(b, a)

\* a scan ran to completion over more than 50 files and left out a file of
\* the same size as one it returned
C15_Witness ==
    /\ scan_pc = "returned" /\ CancelledEvents = 0
    /\ Cardinality(SeenBefore(wpos)) > 50
    /\ Len(Unwrap(scan_result).value) = 50
    /\ \E a \in heap, b \in SeenBefore(wpos) \ heap : a.size = b.size

LastHandled == Len(results)

\* every tier of the last candidate ran on an entry that was no longer there:
\* it was absent when the engine took it, or it was met existing and was gone
\* (by the hand of another process, no tier having removed it) at the tiers
MissingAtAttempt ==
    /\ LastHandled > 0
    /\ \/ ~MetExisting(LastHandled)
       \/ /\ AllTiersFailed(results[LastHandled])
          /\ ~fs[paths[LastHandled]].exists

\* C21: a candidate that does not exist when its removal is attempted (absent
\* from the start, or removed by another process after the existence check)
\* has an enhanced outcome whose failure kind is NotFound.
C21_MissingIsNotFound ==
    (engine = "enhanced" /\ MissingAtAttempt) =>
        results[LastHandled].failure_reason = Some("NotFound")

\* every tier failed on a locked entry that is still there, and the reboot
\* mark is switched off or the system refused it
LockedWithoutMark ==
    /\ LastHandled > 0
    /\ AllTiersFailed(results[LastHandled])
    /\ found[LastHandled] = Some(Locked)
    /\ fs[paths[LastHandled]] = Locked
    /\ \/ ~cfg.enable_reboot_delete
       \/ Calls(oplog[LastHandled], {"mark_refused"})

\* C22: when every tier fails on a path that still exists because it is
\* locked, and the reboot mark is disabled by with_reboot_delete(false) or the
\* mark call fails, the failure kind of the outcome is FileLocked.
C22_LockedIsFileLocked ==
    (engine = "enhanced" /\ LockedWithoutMark) =>
        results[LastHandled].failure_reason = Some("FileLocked")

\* ------------------------------------------------------------------------
\* Properties of the scan of one category
\* ------------------------------------------------------------------------
\* C24: whatever TEMP, TMP, LOCALAPPDATA and APPDATA are set to, the resolved
\* scan paths of two distinct categories have no path in common, so that no
\* path is a candidate of two categories in one scan.
C24_ScanPathsDisjoint ==
    Returned("resolved_scan_paths") =>
        \A c1, c2 \in DOMAIN Unwrap(ret) :
            c1 # c2 => Unwrap(ret)[c1] \cap Unwrap(ret)[c2] = {}

\* the substrings that name the protected trees
ProtectedTrees ==
    { "system32", "syswow64", "winsxs", "assembly", "\\windows\\servicing",
      "\\windows\\installer", "\\windows\\logs\\cbs", "\\program files",
      "\\programdata\\microsoft\\windows defender", "\\users\\default" }

InProtectedTree(path) == \E t \in ProtectedTrees : Contains(to_lowercase(path), t)

\* C25: no candidate of scan_category has a path that contains the substring
\* of a protected tree, be the resolved scan path a directory that is walked
\* or a single file that is emitted directly.
C25_NoProtectedCandidate ==
    Returned("scan_category") =>
        \A i \in DOMAIN Unwrap(ret).files : ~InProtectedTree(Unwrap(ret).files[i].path)

\* the candidate is a resolved scan path itself: a single file emitted directly
EmittedDirectly(path) == path \in resolved_scan_paths(Arg(1), Arg(2), Arg(3))

\* C25 (amended): no candidate that scan_category found by walking a directory
\* has a path that contains the substring of a protected tree, so the walker
\* emitted nothing of such a directory nor of what lies beneath it; a
\* resolved scan path that is itself a file is emitted without that test.
C25_NoProtectedWalkedCandidate ==
    Returned("scan_category") =>
        \A i \in DOMAIN Unwrap(ret).files :
            LET path == Unwrap(ret).files[i].path
            IN  EmittedDirectly(path) \/ ~InProtectedTree(path)

\* a walked directory held a file of a protected tree beside the candidates
\* that were emitted
C25_Witness ==
    /\ Returned("scan_category")
    /\ Unwrap(ret).files # << >>
    /\ \E k \in DOMAIN Arg(1), r \in resolved_scan_paths(Arg(1), Arg(2), Arg(3)) :
          /\ ~Arg(1)[k].is_dir
          /\ Arg(1)[k].path # r
          /\ Under(Arg(1)[k].path, r)
          /\ InProtectedTree(Arg(1)[k].path)
          /\ \A i \in DOMAIN Unwrap(ret).files : Unwrap(ret).files[i].path # Arg(1)[k].path

\* the bytes of the files stored under the resolved scan paths of the call,
\* each file once
StoredBytes ==
    LET disk == Arg(1)
        roots == resolved_scan_paths(Arg(1), Arg(2), Arg(3))
    IN  sum_len(SelectSeq(disk, LAMBDA e : ~e.is_dir /\ \E r \in roots : Under(e.path, r)))

\* C28: in a CategoryScanResult the bytes of a file count at most once:
\* total_size never exceeds the bytes stored under the scanned roots, and
\* no entry is among the files twice.
C28_BytesCountedOnce ==
    Returned("scan_category") =>
        LET r == Unwrap(ret)
        IN  /\ r.total_size <= StoredBytes
            /\ \A i, j \in DOMAIN r.files : r.files[i].path = r.files[j].path => i = j

\* ------------------------------------------------------------------------
\* Properties of the delete gate on the recycle bin
\* ------------------------------------------------------------------------
RecycleBinRoot == "c:\\$recycle.bin"

\* the path lies strictly below C:\$Recycle.Bin
BelowRecycleBin(path) == StartsWith(to_lowercase(path), RecycleBinRoot \o "\\")

\* C26: recycle-bin content can be deleted: a path strictly below
\* C:\$Recycle.Bin is in the allowed scope and is not rejected by
\* DeleteEngine::is_protected_path; only the root of the recycle bin is.
C26_RecycleContentDeletable ==
    /\ Returned("is_in_allowed_scope") =>
          (BelowRecycleBin(Arg(1)) => Unwrap(ret))
    /\ Returned("is_protected_path") =>
          /\ BelowRecycleBin(Arg(1)) => ~Unwrap(ret).protected
          /\ to_lowercase(Arg(1)) = RecycleBinRoot => Unwrap(ret).protected

\* ------------------------------------------------------------------------
\* Properties of delete_leftover_folders
\* ------------------------------------------------------------------------
\* the leftover gate gives the candidate a verdict other than Safe
GateRefuses(cand) == Safe \notin perform_safety_checks(cand.path, cand.f)

\* C29: delete_leftover_folders removes a directory only if the leftover gate
\* would accept it: on a path for which perform_safety_checks gives a verdict
\* other than Safe the command makes no removal and lists the path as failed.
C29_FoldersPassLeftoverGate ==
    Returned("delete_leftover_folders") =>
        \A i \in DOMAIN Arg(1) :
            GateRefuses(Arg(1)[i]) =>
                /\ \A k \in DOMAIN Unwrap(ret).ops : Unwrap(ret).ops[k].path # Arg(1)[i].path
                /\ InList(Unwrap(ret).failed_paths, Arg(1)[i].path)

\* ------------------------------------------------------------------------
\* Properties of the backup files of delete_registry_entries
\* ------------------------------------------------------------------------
\* the entry was in the registry when the requests came in and is there no more
Deleted(e) == e \notin registry /\ \A r \in DOMAIN rq : e \in rq[r].registry_at_call

\* a backup file that exists holds the section of the entry
BackedUp(e) ==
    \E t \in Seconds : backups[t] # None /\ InList(Unwrap(backups[t]).sections, e.path)

\* C27: after any sequence of delete-registry requests, two requests in the
\* same second or concurrent ones included, every registry entry that was
\* deleted is still listed in a backup file that exists: a later request
\* never overwrites or truncates the backup file of an earlier one.
C27_DeletedKeptInBackup ==
    \A e \in RegEntries : Deleted(e) => BackedUp(e)

\* ------------------------------------------------------------------------
\* Properties of ScanEngine::scan
\* ------------------------------------------------------------------------
RECURSIVE sum_total_size(_)
sum_total_size(rs) == IF rs = << >> THEN 0 ELSE Head(rs).total_size + sum_total_size(Tail(rs))

RECURSIVE sum_file_count(_)
sum_file_count(rs) == IF rs = << >> THEN 0 ELSE Head(rs).file_count + sum_file_count(Tail(rs))

\* the results of the selected categories, in the order of the selection
InSelectionOrder == [k \in DOMAIN categories |-> ScanOf[categories[k]]]

ScanReturned == scan_main = "returned" /\ scan_output # None

\* C23: for every interleaving of the worker threads, scan returns exactly
\* one CategoryScanResult for each selected category, and total_size and
\* total_file_count are the sums of total_size and file_count over these
\* results, whatever the order in which the threads finished.
C23_OneResultEachAndSums ==
    ScanReturned =>
        LET out == Unwrap(scan_output)
        IN  /\ Len(out.categories) = Len(categories)
            /\ \A k \in DOMAIN categories :
                  Cardinality({i \in DOMAIN out.categories :
                                  out.categories[i] = ScanOf[categories[k]]}) = 1
            /\ out.total_size = sum_total_size(out.categories)
            /\ out.total_file_count = sum_file_count(out.categories)
            /\ out.total_size = sum_total_size(InSelectionOrder)
            /\ out.total_file_count = sum_file_count(InSelectionOrder)

\* a scan of several categories returned their results in another order than
\* the one of the selection, with files found
C23_Witness ==
    /\ ScanReturned
    /\ Len(categories) >= 2
    /\ Unwrap(scan_output).categories # InSelectionOrder
    /\ Unwrap(scan_output).total_file_count > 0

\* ------------------------------------------------------------------------
\* Properties of the cancel flag of the large-file scan
\* ------------------------------------------------------------------------
\* a cancel request met the walk of c with a file still to come
CancelWasRequested(c) == scans[c].cancel_requested

\* the command c returned all the files of its walk
ReturnedComplete(c) == scans[c].pc = "finished"

\* the command c returned at a load of the flag, with files left
ReturnedPartial(c) == scans[c].pc = "cancelled" /\ scans[c].left > 0

\* a cancel request is never lost: a walk that was under way when it was
\* made, with a file still to come, does not run to its end
CancelNeverLost == \A c \in DOMAIN scans : CancelWasRequested(c) => ~ReturnedComplete(c)

\* a cancel request never leaks: a walk stops early only for a request made
\* while it was under way
CancelNeverLeaks == \A c \in DOMAIN scans : scans[c].pc = "cancelled" => CancelWasRequested(c)

\* C30: for every interleaving of cancel_large_file_scan with scan_large_files
\* commands, a scan that was walking when cancel was requested stops with a
\* partial result, even if another scan_large_files command resets the flag
\* before the next load of the walk, and a cancel made while no scan runs does
\* not cancel the next scan.
C30_CancelNeverLostNorLeaked == CancelNeverLost /\ CancelNeverLeaks

====
